---------------------------- MODULE Spec2Model ----------------------------
(***************************************************************************)
(* Contract risk analysis pipeline: clause segmentation, hybrid            *)
(* contract-type classification, clause selection under a budget, and      *)
(* contract-level risk aggregation.                                        *)
(*                                                                         *)
(* Each component is a pure function of its input; it is checked under a   *)
(* specification of its own whose Init draws the input from a bounded set  *)
(* and whose action applies the function.  The application handlers        *)
(* (process_upload, analyze_full_contract) are checked under SpecApp,      *)
(* which steps through the handler and lets the external services answer   *)
(* in every way they can.                                                  *)
(***************************************************************************)
EXTENDS Integers, Sequences, FiniteSets, TLC

VARIABLES
    pc,               \* position of the operation under check
    clauses_list,     \* selector / analyze_full_contract input: list of clause dicts
    max_llm_clauses,  \* selector budget argument
    ensure_baseline,  \* selector baseline argument
    selected,         \* selector result: list of SelectedClause
    stats,            \* selector result: statistics dict
    text,             \* segmenter input: the raw text, a sequence of characters
    clauses,          \* segmenter result: list of Clause
    ct_text,          \* classifier input: the phrases occurring in the text
    ct_reply,         \* what the fallback service answered in this call
    ct_result,        \* classifier result: ContractTypeResult
    clause_results,   \* aggregator input: list of ClauseAnalysis
    summary,          \* aggregator result: the contract summary dict
    document,         \* application: the clauses preprocessing finds in the upload
    upload_return,    \* application: what process_upload returned
    llm_calls,        \* application: requests made to the semantic-risk service
    app_return,       \* application: what analyze_full_contract returned
    raised_by,        \* application: the call whose exception left the handler
    audit_log,        \* application: the audit events attempted, written or not
    llm_replies,      \* application: the answers of the semantic-risk service so far
    llm_requests,     \* application: the clauses sent to the semantic-risk service so far
    deo_units,        \* deontic extractor input: the sentence-like units of the text
    max_items_each,   \* deontic extractor argument
    deontic,          \* deontic extractor result: the three lists and their counts
    amb_sentences,    \* ambiguity detector input: the sentences of the text
    max_hits,         \* ambiguity detector argument
    ambiguity         \* ambiguity detector result: score, level and hits

vars == <<pc, clauses_list, max_llm_clauses, ensure_baseline, selected, stats,
          text, clauses, ct_text, ct_reply, ct_result, clause_results, summary,
          document, upload_return, llm_calls, app_return, raised_by, audit_log,
          llm_replies, llm_requests, deo_units, max_items_each, deontic, amb_sentences, max_hits,
          ambiguity>>

selVars == <<clauses_list, max_llm_clauses, ensure_baseline, selected, stats>>
segVars == <<text, clauses>>

\* The state of the components a specification does not exercise.
IdleSel ==
    /\ clauses_list = <<>> /\ max_llm_clauses = 0 /\ ensure_baseline = 0
    /\ selected = <<>>
    /\ stats = [total_clauses |-> 0, selected_for_llm |-> 0, max_llm_clauses |-> 0,
                baseline_included |-> 0, top_scores |-> <<>>]
IdleSeg == text = <<>> /\ clauses = <<>>
ctVars == <<ct_text, ct_reply, ct_result>>
NoReply == [kind |-> "none", cause |-> "", has_type |-> FALSE, contract_type |-> "",
            has_conf |-> FALSE, conf_kind |-> "", conf |-> 0, ev_is_list |-> FALSE, evidence |-> <<>>]
NoResult == [contract_type |-> "", confidence |-> 0, method |-> "", evidence |-> <<>>]
IdleCt == ct_text = {} /\ ct_reply = NoReply /\ ct_result = NoResult
aggVars == <<clause_results, summary>>
NoSummary == [overall_risk |-> "", avg_score |-> 0,
              counts |-> [High |-> 0, Medium |-> 0, Low |-> 0, Unclear |-> 0],
              top_high_risk |-> <<>>, red_flags |-> <<>>]
IdleAgg == clause_results = <<>> /\ summary = NoSummary
appVars == <<document, upload_return, llm_calls, app_return, raised_by, audit_log,
             llm_replies, llm_requests>>
NoUpload == [status |-> "", clauses_list |-> <<>>]
NoReturn == [overall_risk |-> "", avg_score |-> "", counts_line |-> "",
             high_risk_text |-> <<>>, red_flags_text |-> <<>>, summary |-> {}]
IdleApp ==
    /\ document = <<>> /\ upload_return = NoUpload /\ llm_calls = 0
    /\ app_return = NoReturn /\ raised_by = "" /\ audit_log = <<>>
    /\ llm_replies = <<>> /\ llm_requests = <<>>
nlpVars == <<deo_units, max_items_each, deontic, amb_sentences, max_hits, ambiguity>>
NoDeontic == [obligations |-> <<>>, rights |-> <<>>, prohibitions |-> <<>>,
              counts |-> [obligations |-> 0, rights |-> 0, prohibitions |-> 0]]
NoAmbiguity == [hits |-> <<>>, score |-> 0, level |-> ""]
IdleNlp ==
    /\ deo_units = <<>> /\ max_items_each = 0 /\ deontic = NoDeontic
    /\ amb_sentences = <<>> /\ max_hits = 0 /\ ambiguity = NoAmbiguity

Min(a, b) == IF a <= b THEN a ELSE b
Max(a, b) == IF a >= b THEN a ELSE b

Range(s) == {s[i] : i \in 1..Len(s)}

(***************************************************************************)
(* Texts.  A clause text is represented by what the code reads of it: its  *)
(* length in characters (len), the position of its first newline (nl, 0    *)
(* when it has none) and the set of phrases occurring in it (words), which *)
(* decides every regular-expression search made on it.                     *)
(***************************************************************************)
NoText == [len |-> 0, nl |-> 0, words |-> {}]

(***************************************************************************)
(* risk/selector.py                                                        *)
(***************************************************************************)

\* SELECT_PATTERNS, in source order: label, weight, and the phrases (a sample
\* of the alternatives of the regular expression) whose occurrence makes the
\* pattern match.
SELECT_PATTERNS ==
    << [label |-> "Indemnity", weight |-> 5, phrases |-> {"indemnify", "hold harmless"}],
       [label |-> "Penalty/Liquidated Damages", weight |-> 5, phrases |-> {"penalty", "liquidated damages"}],
       [label |-> "Termination", weight |-> 5, phrases |-> {"terminate at any time", "sole discretion"}],
       [label |-> "Liability", weight |-> 5, phrases |-> {"liability"}],
       [label |-> "Jurisdiction/Governing Law", weight |-> 4, phrases |-> {"governing law", "jurisdiction"}],
       [label |-> "Arbitration", weight |-> 3, phrases |-> {"arbitration"}],
       [label |-> "Auto-Renewal", weight |-> 4, phrases |-> {"auto-renew", "renewal"}],
       [label |-> "Lock-in/Commitment", weight |-> 5, phrases |-> {"lock-in"}],
       [label |-> "Non-Compete", weight |-> 5, phrases |-> {"non-compete"}],
       [label |-> "IP Assignment/Transfer", weight |-> 5, phrases |-> {"IP shall be assigned"}],
       [label |-> "Confidentiality/NDA", weight |-> 2, phrases |-> {"confidential"}],
       [label |-> "Payment", weight |-> 2, phrases |-> {"payment", "invoice"}],
       [label |-> "Scope/Deliverables", weight |-> 1, phrases |-> {"scope"}],
       [label |-> "Term/Duration", weight |-> 1, phrases |-> {"term", "duration"}] >>

\* pattern.search(t)
PatternSearch(pattern, t) == pattern.phrases \cap t.words # {}

RECURSIVE ScoreFrom(_, _)
ScoreFrom(t, k) ==
    IF k > Len(SELECT_PATTERNS) THEN [score |-> 0, reasons |-> <<>>]
    ELSE LET rest == ScoreFrom(t, k + 1)
             p == SELECT_PATTERNS[k]
         IN  IF PatternSearch(p, t)
             THEN [score |-> p.weight + rest.score,
                   reasons |-> <<p.label>> \o rest.reasons]
             ELSE rest

\* score_clause(text): (score, reasons)
score_clause(t) == ScoreFrom(t, 1)

\* The SelectedClause built for one input dict; a dict without the key
\* "clause_id" reads as clause_id "" (c.get("clause_id", "")).
Scored(c) ==
    LET s == score_clause(c.text)
    IN  [clause_id |-> c.clause_id, text |-> c.text,
         score |-> s.score, reasons |-> s.reasons]

\* Mutation: the sort key is the score alone.
KeyGreater_ScoreOnly(a, b) == a.score > b.score

\* The sort key (x.score, len(x.text)) compared for reverse=True.
KeyGreater(a, b) ==
    \/ a.score > b.score
    \/ a.score = b.score /\ a.text.len > b.text.len

\* x placed before the first element it strictly outranks, so that elements
\* of equal key keep their input order (sorted is stable, also reversed).
RECURSIVE InsertRanked(_, _)
InsertRanked(x, s) ==
    IF s = <<>> THEN <<x>>
    ELSE IF KeyGreater(x, Head(s)) THEN <<x>> \o s
    ELSE <<Head(s)>> \o InsertRanked(x, Tail(s))

RECURSIVE RankedFrom(_, _)
RankedFrom(s, acc) ==
    IF s = <<>> THEN acc ELSE RankedFrom(Tail(s), InsertRanked(Head(s), acc))

\* sorted(scored, key=lambda x: (x.score, len(x.text)), reverse=True)
Ranked(scored) == RankedFrom(scored, <<>>)

\* Mutation: the slice stops one clause early.
Baseline_OffByOne(scored, eb) == SubSeq(scored, 1, Min(Max(0, eb - 1), Len(scored)))

\* scored[: max(0, ensure_baseline)]
Baseline(scored, eb) == SubSeq(scored, 1, Min(Max(0, eb), Len(scored)))

\* "Add baseline first": the loop over baseline.
RECURSIVE AddBaseline(_, _)
AddBaseline(base, st) ==
    IF base = <<>> THEN st
    ELSE LET c == Head(base)
         IN  IF c.clause_id # "" /\ c.clause_id \notin st.seen_ids
             THEN AddBaseline(Tail(base),
                              [selected |-> Append(st.selected, c),
                               seen_ids |-> st.seen_ids \cup {c.clause_id}])
             ELSE AddBaseline(Tail(base), st)

\* Mutation: the ranked loop does not consult seen_ids.
RECURSIVE AddRanked_IgnoresSeen(_, _, _)
AddRanked_IgnoresSeen(ranked, st, maxc) ==
    IF ranked = <<>> THEN st
    ELSE IF Len(st.selected) >= maxc THEN st
    ELSE LET c == Head(ranked)
         IN  IF c.clause_id # "" /\ (c.score > 0 \/ Len(st.selected) < maxc)
             THEN AddRanked_IgnoresSeen(Tail(ranked),
                                        [selected |-> Append(st.selected, c),
                                         seen_ids |-> st.seen_ids \cup {c.clause_id}],
                                        maxc)
             ELSE AddRanked_IgnoresSeen(Tail(ranked), st, maxc)

\* "Add ranked high-signal clauses": the loop over ranked.
RECURSIVE AddRanked(_, _, _)
AddRanked(ranked, st, maxc) ==
    IF ranked = <<>> THEN st
    ELSE IF Len(st.selected) >= maxc THEN st
    ELSE LET c == Head(ranked)
         IN  IF /\ c.clause_id # "" /\ c.clause_id \notin st.seen_ids
                /\ (c.score > 0 \/ Len(st.selected) < maxc)
             THEN AddRanked(Tail(ranked),
                            [selected |-> Append(st.selected, c),
                             seen_ids |-> st.seen_ids \cup {c.clause_id}],
                            maxc)
             ELSE AddRanked(Tail(ranked), st, maxc)

\* sorted({...}, reverse=True)[:5]
RECURSIVE SortedDesc(_)
SortedDesc(S) ==
    IF S = {} THEN <<>>
    ELSE LET m == CHOOSE x \in S : \A y \in S : y <= x
         IN  <<m>> \o SortedDesc(S \ {m})

TopScores(sel) ==
    LET all == SortedDesc({sel[i].score : i \in 1..Len(sel)})
    IN  SubSeq(all, 1, Min(5, Len(all)))

\* smart_select_clauses(clauses_list, max_llm_clauses, ensure_baseline)
smart_select_clauses(cl, maxc, eb) ==
    LET scored == [i \in 1..Len(cl) |-> Scored(cl[i])]
        baseline == Baseline(scored, eb)
        ranked == Ranked(scored)
        st0 == AddBaseline(baseline, [selected |-> <<>>, seen_ids |-> {}])
        st1 == AddRanked(ranked, st0, maxc)
    IN  [selected |-> st1.selected,
         stats |-> [total_clauses |-> Len(cl),
                    selected_for_llm |-> Len(st1.selected),
                    max_llm_clauses |-> maxc,
                    baseline_included |-> Len(baseline),
                    top_scores |-> TopScores(st1.selected)]]

(***************************************************************************)
(* Selector inputs.                                                        *)
(***************************************************************************)
MaxClausesIn == 3      \* longest clause list given to the selector

\* Budgets and baselines tried; 12 and 2 are the values analyze_full_contract
\* passes, -1 exercises max(0, ensure_baseline).
Budgets == {0, 1, 2, 3, 12}
Baselines == {-1, 0, 1, 2, 3}

\* Clause ids an input dict may carry; "" is a dict with no (or an empty) id.
SelIds == {"", "C001", "C002", "C003"}

\* Clause texts: no signal (short and long) and high signal.
SelTexts ==
    { [len |-> 10, nl |-> 0, words |-> {}],
      [len |-> 20, nl |-> 0, words |-> {}],
      [len |-> 10, nl |-> 0, words |-> {"indemnify", "payment"}] }

SelClauses == [clause_id : SelIds, text : SelTexts]

SeqsUpTo(S, n) == UNION {[1..k -> S] : k \in 0..n}

NoStats == [total_clauses |-> 0, selected_for_llm |-> 0, max_llm_clauses |-> 0,
            baseline_included |-> 0, top_scores |-> <<>>]

InitSel ==
    /\ pc = "select"
    /\ clauses_list \in SeqsUpTo(SelClauses, MaxClausesIn)
    /\ max_llm_clauses \in Budgets
    /\ ensure_baseline \in Baselines
    /\ selected = <<>>
    /\ stats = NoStats
    /\ IdleSeg /\ IdleCt /\ IdleAgg /\ IdleApp /\ IdleNlp

\* The input dicts in rank order, as clauses_list.sort(...) would leave them.
RankedInput(cl) ==
    LET ranked == Ranked([i \in 1..Len(cl) |-> Scored(cl[i])])
    IN  [i \in 1..Len(ranked) |-> [clause_id |-> ranked[i].clause_id, text |-> ranked[i].text]]

\* Mutation: the call ranks the caller's list in place instead of a copy.
Select_SortsInput ==
    /\ pc = "select"
    /\ \E r \in {smart_select_clauses(clauses_list, max_llm_clauses, ensure_baseline)} :
           /\ selected' = r.selected
           /\ stats' = r.stats
    /\ clauses_list' = RankedInput(clauses_list)
    /\ pc' = "selected"
    /\ UNCHANGED <<max_llm_clauses, ensure_baseline, segVars, nlpVars, ctVars, aggVars, appVars>>

\* One call of smart_select_clauses on the drawn input.
Select ==
    /\ pc = "select"
    /\ \E r \in {smart_select_clauses(clauses_list, max_llm_clauses, ensure_baseline)} :
           /\ selected' = r.selected
           /\ stats' = r.stats
    /\ pc' = "selected"
    /\ UNCHANGED <<clauses_list, max_llm_clauses, ensure_baseline, segVars, nlpVars, ctVars, aggVars, appVars>>

NextSel == Select

SpecSel == InitSel /\ [][NextSel]_vars

\* A second call of smart_select_clauses with the arguments of the first;
\* the function keeps nothing between calls, so it reads the list, the
\* budget and the baseline only.
SelectAgain ==
    /\ pc = "selected"
    /\ \E r \in {smart_select_clauses(clauses_list, max_llm_clauses, ensure_baseline)} :
           /\ selected' = r.selected
           /\ stats' = r.stats
    /\ pc' = "reselected"
    /\ UNCHANGED <<clauses_list, max_llm_clauses, ensure_baseline, segVars, nlpVars, ctVars, aggVars, appVars>>

NextSelTwice ==
    \/ Select
    \/ SelectAgain

SpecSelTwice == InitSel /\ [][NextSelTwice]_vars

(***************************************************************************)
(* Selector properties.                                                    *)
(***************************************************************************)
SelDone == pc = "selected"

\* clause i of the input is an entry of the selection
InSelection(i) ==
    \E k \in 1..Len(selected) : selected[k] = Scored(clauses_list[i])

\* C1: for every clause list and every max_llm_clauses and ensure_baseline
\* (also ensure_baseline > max_llm_clauses) the selection has at most
\* max_llm_clauses entries.
C1_WithinBudget == SelDone => Len(selected) <= max_llm_clauses

FreshId(i) ==
    /\ clauses_list[i].clause_id # ""
    /\ \A j \in 1..(i - 1) : clauses_list[j].clause_id # clauses_list[i].clause_id

Outranks(a, b) ==
    \/ a.score > b.score
    \/ a.score = b.score /\ a.text.len > b.text.len

\* the number of entries the baseline clauses put at the head of the selection
BaselineEntries ==
    Cardinality({i \in 1..Min(Max(ensure_baseline, 0), Len(clauses_list)) : FreshId(i)})

\* the positions of the selection filled after the baseline clauses
FilledSlots == (BaselineEntries + 1)..Len(selected)

\* the entries filled after the baseline are in rank order
FilledInRankOrder ==
    \A k \in FilledSlots : \A l \in FilledSlots :
        k < l => ~Outranks(selected[l], selected[k])

\* C12 as stated: the slots after the baseline hold the top-ranked remaining
\* clauses in rank order: no unselected clause outranks an entry selected
\* after the baseline.
C12_NoUnselectedOutranks ==
    SelDone =>
        /\ FilledInRankOrder
        /\ \A k \in FilledSlots : \A j \in 1..Len(clauses_list) :
              ~InSelection(j) => ~Outranks(Scored(clauses_list[j]), selected[k])

\* clause j carries an id, and no other clause of the list carries it
UniqueId(j) ==
    /\ clauses_list[j].clause_id # ""
    /\ \A i \in 1..Len(clauses_list) :
          i # j => clauses_list[i].clause_id # clauses_list[j].clause_id

\* C12 (amended): the slots after the baseline are filled in rank order, and
\* no unselected clause whose id is non-empty and carried by no other clause
\* outranks an entry selected after the baseline; in particular a zero-score
\* clause fills a slot only when every such positive-score clause is selected.
C12_NoUnselectedWithIdOutranks ==
    SelDone =>
        /\ FilledInRankOrder
        /\ \A k \in FilledSlots : \A j \in 1..Len(clauses_list) :
              (UniqueId(j) /\ ~InSelection(j))
                  => ~Outranks(Scored(clauses_list[j]), selected[k])

\* One baseline clause, one slot filled by a positive-score clause, and a
\* zero-score clause with an id of its own left out by the budget.
C12_Witness ==
    /\ SelDone
    /\ ensure_baseline = 1 /\ max_llm_clauses = 2 /\ Len(clauses_list) = 3
    /\ \A j \in 1..3 : UniqueId(j)
    /\ Len(selected) = 2 /\ selected[2].score > 0
    /\ \E j \in 2..3 : ~InSelection(j) /\ Scored(clauses_list[j]).score = 0

Chars == {"1", "a", "H", "-", " ", "\n"}

IsWs(c) == c \in {" ", "\n"}

\* re.sub(r"[ \t]+", " ", text)
RECURSIVE CollapseSpaces(_)
CollapseSpaces(s) ==
    IF Len(s) < 2 THEN s
    ELSE IF s[1] = " " /\ s[2] = " " THEN CollapseSpaces(Tail(s))
    ELSE <<s[1]>> \o CollapseSpaces(Tail(s))

\* re.sub(r"\n{3,}", "\n\n", text)
RECURSIVE CollapseNewlines(_)
CollapseNewlines(s) ==
    IF Len(s) < 3 THEN s
    ELSE IF s[1] = "\n" /\ s[2] = "\n" /\ s[3] = "\n" THEN CollapseNewlines(Tail(s))
    ELSE <<s[1]>> \o CollapseNewlines(Tail(s))

RECURSIVE LStrip(_)
LStrip(s) == IF s # <<>> /\ IsWs(Head(s)) THEN LStrip(Tail(s)) ELSE s

RECURSIVE RStrip(_)
RStrip(s) ==
    IF s # <<>> /\ IsWs(s[Len(s)]) THEN RStrip(SubSeq(s, 1, Len(s) - 1)) ELSE s

\* str.strip()
Strip(s) == RStrip(LStrip(s))

\* normalize_text(text); the alphabet has no "\r", so the two replace calls
\* leave the text as it is.
normalize_text(s) == Strip(CollapseNewlines(CollapseSpaces(s)))

\* The position of the first non-whitespace character at or after k
\* (Len(s) + 1 when there is none): where a greedy \s* starting at k stops.
RECURSIVE SkipWs(_, _)
SkipWs(s, k) ==
    IF k <= Len(s) /\ IsWs(s[k]) THEN SkipWs(s, k + 1) ELSE k

RECURSIVE SkipDigits(_, _)
SkipDigits(s, k) ==
    IF k <= Len(s) /\ s[k] = "1" THEN SkipDigits(s, k + 1) ELSE k

\* (?m)^ at position p
LineStart(s, p) == p = 1 \/ s[p - 1] = "\n"

\* (?m)$ at position x
LineEnd(s, x) == x = Len(s) + 1 \/ s[x] = "\n"

\* \s*[.)-]\s+ at position q: the position after the match, 0 for no match.
SepThenSpace(s, q) ==
    LET j == SkipWs(s, q)
    IN  IF j + 1 <= Len(s) /\ s[j] = "-" /\ IsWs(s[j + 1])
        THEN SkipWs(s, j + 1) ELSE 0

\* ^\s*(\d+(\.\d+){0,4})\s*[.)-]\s+ tried at p: the position after the
\* match, 0 for no match.
MatchNumbered(s, p) ==
    LET k == SkipWs(s, p)
    IN  IF LineStart(s, p) /\ k <= Len(s) /\ s[k] = "1"
        THEN SepThenSpace(s, SkipDigits(s, k)) ELSE 0

\* ^\s*([a-zA-Z])\s*[.)-]\s+ tried at p
MatchLettered(s, p) ==
    LET k == SkipWs(s, p)
    IN  IF LineStart(s, p) /\ k <= Len(s) /\ s[k] = "a"
        THEN SepThenSpace(s, k + 1) ELSE 0

\* A greedy \s* from position a followed by $: the last line end among
\* a..SkipWs(s, a), 0 when there is none.
LastLineEnd(s, a) ==
    LET ends == {x \in a..SkipWs(s, a) : LineEnd(s, x)}
    IN  IF ends = {} THEN 0 ELSE CHOOSE x \in ends : \A y \in ends : y <= x

\* \s*[:\-]?\s*$ at position q, as the backtracking matcher resolves it:
\* the first \s* takes all the whitespace, then the separator if there is
\* one, then whitespace up to the last line end; failing that, the match
\* ends at the last line end within the whitespace after the heading.
HeadingTail(s, q) ==
    LET j == SkipWs(s, q)
        withSep == IF j <= Len(s) /\ s[j] = "-" THEN LastLineEnd(s, j + 1) ELSE 0
    IN  IF withSep # 0 THEN withSep ELSE LastLineEnd(s, q)

\* ^\s*(TERM|TERMINATION|...)\s*[:\-]?\s*$ tried at p (and the pattern of
\* the second script)
MatchHeading(s, p) ==
    LET k == SkipWs(s, p)
    IN  IF LineStart(s, p) /\ k <= Len(s) /\ s[k] = "H"
        THEN HeadingTail(s, k + 1) ELSE 0

\* The three pattern families of _CLAUSE_SPLIT_PATTERNS in this alphabet.
Families == {"numbered", "lettered", "heading"}

MatchAt(fam, s, p) ==
    CASE fam = "numbered" -> MatchNumbered(s, p)
      [] fam = "lettered" -> MatchLettered(s, p)
      [] fam = "heading" -> MatchHeading(s, p)

\* [m.start() for m in re.finditer(pat, norm)], scanning from position p:
\* the leftmost match, then the next one from where it ended.
RECURSIVE FindStarts(_, _, _)
FindStarts(fam, s, p) ==
    IF p > Len(s) THEN {}
    ELSE LET e == MatchAt(fam, s, p)
         IN  IF e = 0 THEN FindStarts(fam, s, p + 1)
             ELSE {p} \cup FindStarts(fam, s, e)

\* sorted(set(starts))
RECURSIVE SortedAsc(_)
SortedAsc(S) ==
    IF S = {} THEN <<>>
    ELSE LET m == CHOOSE x \in S : \A y \in S : x <= y
         IN  <<m>> \o SortedAsc(S \ {m})

Starts(norm) == SortedAsc(UNION {FindStarts(fam, norm, 1) : fam \in Families})

\* norm.split("\n\n"): the pieces between successive occurrences of two
\* newlines, found left to right.
RECURSIVE SplitParas(_, _)
SplitParas(s, cur) ==
    IF s = <<>> THEN <<cur>>
    ELSE IF Len(s) >= 2 /\ s[1] = "\n" /\ s[2] = "\n"
    THEN <<cur>> \o SplitParas(SubSeq(s, 3, Len(s)), <<>>)
    ELSE SplitParas(Tail(s), Append(cur, s[1]))

\* [x.strip() for x in pieces if x.strip()]
RECURSIVE StripNonEmpty(_)
StripNonEmpty(pieces) ==
    IF pieces = <<>> THEN <<>>
    ELSE LET c == Strip(Head(pieces))
         IN  IF c # <<>> THEN <<c>> \o StripNonEmpty(Tail(pieces))
             ELSE StripNonEmpty(Tail(pieces))

Digit(d) == <<"0", "1", "2", "3", "4", "5", "6", "7", "8", "9">>[d + 1]

\* f"C{i:03d}"
ClauseId(i) ==
    IF i < 1000
    THEN "C" \o Digit(i \div 100) \o Digit((i \div 10) % 10) \o Digit(i % 10)
    ELSE "C" \o ToString(i)

\* Mutation: the numbering starts at 0.
Numbered_FromZero(segs) ==
    [i \in 1..Len(segs) |-> [clause_id |-> ClauseId(i - 1), text |-> segs[i]]]

\* [Clause(clause_id=f"C{i:03d}", text=seg) for i, seg in enumerate(segs, start=1)]
Numbered(segs) == [i \in 1..Len(segs) |-> [clause_id |-> ClauseId(i), text |-> segs[i]]]

\* norm[s:e] for each start s, e the next start or len(norm)
Chunks(norm, starts) ==
    [i \in 1..Len(starts) |->
        SubSeq(norm, starts[i],
               IF i + 1 <= Len(starts) THEN starts[i + 1] - 1 ELSE Len(norm))]

\* extract_clauses(text)
extract_clauses(t) ==
    LET norm == normalize_text(t)
        starts == Starts(norm)
    IN  IF starts = <<>>
        THEN Numbered(StripNonEmpty(SplitParas(norm, <<>>)))
        ELSE Numbered(StripNonEmpty(Chunks(norm, starts)))

(***************************************************************************)
(* Segmenter inputs.                                                       *)
(***************************************************************************)
MaxTextLen == 5        \* longest raw text given to the segmenter

InitSeg ==
    /\ pc = "segment"
    /\ text \in SeqsUpTo(Chars, MaxTextLen)
    /\ clauses = <<>>
    /\ IdleSel /\ IdleCt /\ IdleAgg /\ IdleApp /\ IdleNlp

\* One call of extract_clauses on the drawn text.
Segment ==
    /\ pc = "segment"
    /\ clauses' = extract_clauses(text)
    /\ pc' = "segmented"
    /\ UNCHANGED <<text, selVars, nlpVars, ctVars, aggVars, appVars>>

NextSeg == Segment

SpecSeg == InitSeg /\ [][NextSeg]_vars

\* Texts of blank-line separated paragraphs, long enough to hold a paragraph
\* of whitespace only between two others.
ParaChars == {"a", " ", "\n"}
MaxParaTextLen == 7    \* longest raw text over ParaChars

InitSegParas ==
    /\ pc = "segment"
    /\ text \in SeqsUpTo(Chars, MaxTextLen) \cup SeqsUpTo(ParaChars, MaxParaTextLen)
    /\ clauses = <<>>
    /\ IdleSel /\ IdleCt /\ IdleAgg /\ IdleApp /\ IdleNlp

SpecSegParas == InitSegParas /\ [][NextSeg]_vars

(***************************************************************************)
(* Segmenter properties.                                                   *)
(***************************************************************************)
SegDone == pc = "segmented"

RECURSIVE Concat(_)
Concat(ss) == IF ss = <<>> THEN <<>> ELSE Head(ss) \o Concat(Tail(ss))

ClauseTexts == [i \in 1..Len(clauses) |-> clauses[i].text]

\* the characters of s that are not whitespace, in order
RECURSIVE Ink(_)
Ink(s) ==
    IF s = <<>> THEN <<>>
    ELSE IF IsWs(Head(s)) THEN Ink(Tail(s)) ELSE <<Head(s)>> \o Ink(Tail(s))

\* C2: the clause spans, concatenated in order, reconstruct the normalized
\* text: no character is dropped or duplicated, in particular no text before
\* the first clause-start marker.  The clause texts are kept trimmed, so the
\* comparison is made on the characters that are not whitespace, the reading
\* most favourable to the code.
C2_ClausesCoverText == SegDone => Ink(Concat(ClauseTexts)) = Ink(normalize_text(text))

\* "C" and the number i written with at least three digits
PaddedId(i) ==
    IF i < 10 THEN "C00" \o ToString(i)
    ELSE IF i < 100 THEN "C0" \o ToString(i)
    ELSE "C" \o ToString(i)

\* the least position >= from at which piece occurs in s, 0 when there is none
FirstAt(piece, s, from) ==
    LET hits == {p \in from..(Len(s) - Len(piece) + 1) :
                    SubSeq(s, p, p + Len(piece) - 1) = piece}
    IN  IF hits = {} THEN 0 ELSE CHOOSE p \in hits : \A q \in hits : p <= q

\* the pieces occur in s one after the other, without overlap
RECURSIVE InOrder(_, _, _)
InOrder(pieces, s, from) ==
    IF pieces = <<>> THEN TRUE
    ELSE LET p == FirstAt(Head(pieces), s, from)
         IN  p # 0 /\ InOrder(Tail(pieces), s, p + Len(Head(pieces)))

\* C21: the emitted clauses carry the ids C001, C002, ... consecutively from
\* 1, in the order in which their texts occur in the normalized text, and
\* none has an empty text; also when spans empty after trimming are dropped
\* and when the paragraph fallback is used.
C21_ConsecutiveIds ==
    SegDone =>
        /\ \A i \in 1..Len(clauses) :
              /\ clauses[i].clause_id = PaddedId(i)
              /\ clauses[i].text # <<>>
        /\ InOrder(ClauseTexts, normalize_text(text), 1)

\* The paragraph fallback found three paragraphs, dropped the one that is
\* empty after trimming and numbered the two others.
C21_Witness ==
    /\ SegDone
    /\ Starts(normalize_text(text)) = <<>>
    /\ Len(SplitParas(normalize_text(text), <<>>)) = 3
    /\ Len(clauses) = 2
    /\ clauses[2].clause_id = "C002"

(***************************************************************************)
(* nlp/contract_type.py                                                    *)
(*                                                                         *)
(* The text is represented by the set of phrases occurring in it.  A       *)
(* keyword occurs in the text when it is a substring of one of the         *)
(* phrases (tok.lower() in t); a strong pattern matches when one of its    *)
(* alternatives is one of the phrases.  Confidences are in hundredths.     *)
(***************************************************************************)
CONTRACT_TYPES ==
    <<"employment_agreement", "vendor_contract", "lease_agreement",
      "partnership_deed", "service_contract", "unknown">>

\* The keys of RULE_SETS, in insertion order.
Categories ==
    <<"employment_agreement", "vendor_contract", "lease_agreement",
      "partnership_deed", "service_contract">>

RULE_SETS(ctype) ==
    CASE ctype = "employment_agreement" ->
           <<"employee", "employer", "employment", "salary", "wages", "probation",
             "notice period", "termination", "hr", "designation", "work hours",
             "confidentiality", "non-compete", "non solicitation", "leave", "appraisal",
             "ctc", "joining", "offer letter">>
      [] ctype = "vendor_contract" ->
           <<"vendor", "purchase order", "po", "supply", "goods", "delivery",
             "acceptance", "invoice", "quality", "inspection", "warranty",
             "indemnity", "penalty", "liquidated damages", "service levels",
             "client", "supplier">>
      [] ctype = "lease_agreement" ->
           <<"lease", "rent", "landlord", "tenant", "premises", "security deposit",
             "maintenance", "possession", "eviction", "utility", "lock-in",
             "renewal", "rent escalation", "fit-out", "termination of lease">>
      [] ctype = "partnership_deed" ->
           <<"partnership", "partner", "profit sharing", "capital contribution",
             "drawings", "firm", "partnership deed", "dissolution", "accounts",
             "admission of partner", "retirement", "indemnify partners">>
      [] ctype = "service_contract" ->
           <<"services", "statement of work", "sow", "scope of work", "deliverables",
             "milestone", "sla", "support", "maintenance", "professional services",
             "fees", "payment terms", "termination", "confidentiality">>

\* STRONG_PATTERNS, in source order: category, alternatives, boost.
STRONG_PATTERNS ==
    << [ctype |-> "employment_agreement", boost |-> 6,
        alts |-> {"offer letter", "appointment letter", "employment agreement"}],
       [ctype |-> "lease_agreement", boost |-> 6,
        alts |-> {"lease agreement", "rent agreement", "lessor", "lessee"}],
       [ctype |-> "partnership_deed", boost |-> 6,
        alts |-> {"partnership deed", "partners hereby agree"}],
       [ctype |-> "vendor_contract", boost |-> 5,
        alts |-> {"purchase order", "supplier", "supply of goods"}],
       [ctype |-> "service_contract", boost |-> 5,
        alts |-> {"statement of work", "scope of services", "service agreement"}] >>

\* The phrases a text is made of, and for each the keywords of RULE_SETS
\* that are substrings of it ("po" is a substring of "support" and of
\* "appointment letter").
Phrases ==
    {"employee", "salary", "termination", "supplier", "lease agreement", "rent",
     "partner", "support", "appointment letter"}

SubstringsOf(phrase) ==
    CASE phrase = "employee" -> {"employee"}
      [] phrase = "salary" -> {"salary"}
      [] phrase = "termination" -> {"termination"}
      [] phrase = "supplier" -> {"supplier"}
      [] phrase = "lease agreement" -> {"lease"}
      [] phrase = "rent" -> {"rent"}
      [] phrase = "partner" -> {"partner"}
      [] phrase = "support" -> {"support", "po"}
      [] phrase = "appointment letter" -> {"po"}

\* tok.lower() in t
Occurs(tok, t) == \E phrase \in t : tok \in SubstringsOf(phrase)

\* pattern.search(t)
StrongSearch(pattern, t) == pattern.alts \cap t # {}

\* [tok for tok in toks if tok.lower() in t.lower()]
RECURSIVE HitTokens(_, _)
HitTokens(toks, t) ==
    IF toks = <<>> THEN <<>>
    ELSE IF Occurs(Head(toks), t) THEN <<Head(toks)>> \o HitTokens(Tail(toks), t)
    ELSE HitTokens(Tail(toks), t)

\* _token_score(text, tokens)
_token_score(t, toks) == Len(HitTokens(toks, t))

RECURSIVE BoostFrom(_, _, _)
BoostFrom(ctype, t, k) ==
    IF k > Len(STRONG_PATTERNS) THEN 0
    ELSE (IF STRONG_PATTERNS[k].ctype = ctype /\ StrongSearch(STRONG_PATTERNS[k], t)
          THEN STRONG_PATTERNS[k].boost ELSE 0) + BoostFrom(ctype, t, k + 1)

\* scores[ctype] after both loops of _rules_classify
RuleScore(ctype, t) == BoostFrom(ctype, t, 1) + _token_score(t, RULE_SETS(ctype))

Prefix(s, n) == SubSeq(s, 1, Min(n, Len(s)))

RECURSIVE KwEvidence(_)
KwEvidence(toks) ==
    IF toks = <<>> THEN <<>> ELSE <<"kw:" \o Head(toks)>> \o KwEvidence(Tail(toks))

\* evidence[ctype]: the entry of the matched strong pattern (the source
\* writes the regular expression after "pattern:"; the category names it
\* here), then up to five keyword entries
RuleEvidence(ctype, t) ==
    (IF BoostFrom(ctype, t, 1) > 0 THEN <<"pattern:" \o ctype>> ELSE <<>>)
        \o KwEvidence(Prefix(HitTokens(RULE_SETS(ctype), t), 5))

\* scores: the dict of _rules_classify after both loops
Scores(t) == [c \in Range(Categories) |-> RuleScore(c, t)]

\* sorted(scores.items(), key=lambda x: x[1], reverse=True): the categories
\* by descending score, equal scores in insertion order.
RECURSIVE InsertByScore(_, _, _)
InsertByScore(c, s, scores) ==
    IF s = <<>> THEN <<c>>
    ELSE IF scores[c] > scores[Head(s)] THEN <<c>> \o s
    ELSE <<Head(s)>> \o InsertByScore(c, Tail(s), scores)

RECURSIVE RankFrom(_, _, _)
RankFrom(cs, acc, scores) ==
    IF cs = <<>> THEN acc
    ELSE RankFrom(Tail(cs), InsertByScore(Head(cs), acc, scores), scores)

RankedTypes(scores) == RankFrom(Categories, <<>>, scores)

\* Mutation: the low-signal floor applies to a best score of 0 only.
RuleConfidence_FloorBelowOne(best_score, second_score) ==
    IF best_score < 1 THEN 30
    ELSE Min(95, 45 + 5 * best_score + 10 * (best_score - second_score))

\* Mutation: the best score does not enter the confidence.
RuleConfidence_SeparationOnly(best_score, second_score) ==
    IF best_score <= 1 THEN 30
    ELSE Min(95, 45 + 10 * (best_score - second_score))

\* Mutation: the separation is taken with the opposite sign.
RuleConfidence_SeparationReversed(best_score, second_score) ==
    IF best_score <= 1 THEN 30
    ELSE Min(95, 45 + 5 * best_score + 10 * (second_score - best_score))

\* The confidence heuristic of _rules_classify on the two top scores, after
\* round(confidence, 2): 0.30 when best_score <= 1, else
\* min(0.95, 0.45 + best_score / 20.0 + separation / 10.0).
RuleConfidence(best_score, second_score) ==
    IF best_score <= 1 THEN 30
    ELSE Min(95, 45 + 5 * best_score + 10 * (best_score - second_score))

\* _rules_classify(text)
_rules_classify(t) ==
    LET scores == Scores(t)
        ranked == RankedTypes(scores)
        best_type == ranked[1]
        best_score == scores[ranked[1]]
        second_score == IF Len(ranked) > 1 THEN scores[ranked[2]] ELSE 0
    IN  [contract_type |-> best_type,
         confidence |-> RuleConfidence(best_score, second_score),
         method |-> "rules",
         evidence |-> Prefix(RuleEvidence(best_type, t), 6)]

\* round(a / b) for a >= 0, b > 0, ties to even (Python's round on a value
\* that is exact in binary).
RoundHalfEven(a, b) ==
    LET q == a \div b
        r == a % b
    IN  IF 2 * r > b THEN q + 1
        ELSE IF 2 * r = b THEN q + (q % 2)
        ELSE q

\* What the fallback service can do with one request.  kind "raise":
\* requests.post, raise_for_status or r.json()["message"]["content"] raises
\* (cause).  kind "no_json" / "bad_json": the content holds no {...} region,
\* or one json.loads rejects.  kind "json": a parsed object, with or without
\* the key contract_type, with a confidence (in thousandths) that is a
\* number or not, and an evidence value that is a list or not.
LlmCauses == {"connection_error", "timeout", "http_error", "missing_keys"}
LlmTypes == {"lease_agreement", "unknown", "nda"}
LlmConfs == {-500, 0, 875, 1500}
\* a confidence that is a number, the JSON literal NaN, or a string float()
\* rejects
LlmConfKinds == {"number", "nan", "text"}
LlmEvidence == {<<>>, <<"rent and tenant terms">>}

LlmReplies ==
    {[kind |-> "raise", cause |-> c, has_type |-> FALSE, contract_type |-> "",
      has_conf |-> FALSE, conf_kind |-> "", conf |-> 0, ev_is_list |-> FALSE, evidence |-> <<>>]
        : c \in LlmCauses}
    \cup
    {[kind |-> k, cause |-> "", has_type |-> FALSE, contract_type |-> "",
      has_conf |-> FALSE, conf_kind |-> "", conf |-> 0, ev_is_list |-> FALSE, evidence |-> <<>>]
        : k \in {"no_json", "bad_json"}}
    \cup
    {[kind |-> "json", cause |-> "", has_type |-> TRUE, contract_type |-> ty,
      has_conf |-> TRUE, conf_kind |-> "number", conf |-> cf,
      ev_is_list |-> TRUE, evidence |-> ev]
        : ty \in LlmTypes, cf \in LlmConfs, ev \in LlmEvidence}
    \cup
    {[kind |-> "json", cause |-> "", has_type |-> TRUE, contract_type |-> ty,
      has_conf |-> TRUE, conf_kind |-> k, conf |-> 0,
      ev_is_list |-> TRUE, evidence |-> <<>>]
        : ty \in LlmTypes, k \in LlmConfKinds \ {"number"}}
    \cup
    {[kind |-> "json", cause |-> "", has_type |-> FALSE, contract_type |-> "",
      has_conf |-> FALSE, conf_kind |-> "", conf |-> 0, ev_is_list |-> FALSE, evidence |-> <<>>]}

\* Mutation: the confidence is not clamped to [0, 1].
LlmClassify_NoClamp(reply) ==
    IF reply.kind = "raise" THEN [raised |-> TRUE, result |-> NoResult]
    ELSE IF reply.kind = "no_json"
    THEN [raised |-> FALSE,
          result |-> [contract_type |-> "unknown", confidence |-> 0, method |-> "llm",
                      evidence |-> <<"llm:no_json">>]]
    ELSE IF reply.kind = "bad_json"
    THEN [raised |-> FALSE,
          result |-> [contract_type |-> "unknown", confidence |-> 0, method |-> "llm",
                      evidence |-> <<"llm:bad_json">>]]
    ELSE LET got == IF reply.has_type THEN reply.contract_type ELSE "unknown"
             ctype == IF got \in Range(CONTRACT_TYPES) THEN got ELSE "unknown"
             conf == IF reply.has_conf /\ reply.conf_kind = "number" THEN reply.conf ELSE 0
             clamped == conf
             ev == IF reply.ev_is_list THEN reply.evidence ELSE <<>>
         IN  [raised |-> FALSE,
              result |-> [contract_type |-> ctype,
                          confidence |-> RoundHalfEven(clamped, 10),
                          method |-> "llm",
                          evidence |-> Prefix(ev, 6)]]

\* _llm_classify(text) when the service answers `reply`: raised, or the
\* ContractTypeResult returned.
_llm_classify(reply) ==
    IF reply.kind = "raise" THEN [raised |-> TRUE, result |-> NoResult]
    ELSE IF reply.kind = "no_json"
    THEN [raised |-> FALSE,
          result |-> [contract_type |-> "unknown", confidence |-> 0, method |-> "llm",
                      evidence |-> <<"llm:no_json">>]]
    ELSE IF reply.kind = "bad_json"
    THEN [raised |-> FALSE,
          result |-> [contract_type |-> "unknown", confidence |-> 0, method |-> "llm",
                      evidence |-> <<"llm:bad_json">>]]
    ELSE LET got == IF reply.has_type THEN reply.contract_type ELSE "unknown"
             ctype == IF got \in Range(CONTRACT_TYPES) THEN got ELSE "unknown"
             \* float(conf), 0.0 when it raises
             conf == IF reply.has_conf /\ reply.conf_kind = "number" THEN reply.conf ELSE 0
             \* max(0.0, min(1.0, conf)); min(1.0, nan) is 1.0
             clamped == IF reply.has_conf /\ reply.conf_kind = "nan" THEN 1000
                        ELSE Max(0, Min(1000, conf))
             ev == IF reply.ev_is_list THEN reply.evidence ELSE <<>>
         IN  [raised |-> FALSE,
              result |-> [contract_type |-> ctype,
                          confidence |-> RoundHalfEven(clamped, 10),
                          method |-> "llm",
                          evidence |-> Prefix(ev, 6)]]

\* llm_fallback_threshold, in hundredths
LlmFallbackThreshold == 55

\* Mutation: the fallback result is returned whatever its label.
Fallback_KeepsUnknown(rules_res, threshold, reply) ==
    LET llm == _llm_classify(reply)
    IN  IF rules_res.confidence >= threshold
        THEN [called |-> FALSE, raised |-> FALSE, result |-> rules_res]
        ELSE IF llm.raised
        THEN [called |-> TRUE, raised |-> TRUE, result |-> NoResult]
        ELSE [called |-> TRUE, raised |-> FALSE, result |-> llm.result]

\* Mutation: a rule-phase confidence equal to the threshold takes the fallback.
Fallback_StrictThreshold(rules_res, threshold, reply) ==
    LET llm == _llm_classify(reply)
    IN  IF rules_res.confidence > threshold
        THEN [called |-> FALSE, raised |-> FALSE, result |-> rules_res]
        ELSE IF llm.raised
        THEN [called |-> TRUE, raised |-> TRUE, result |-> NoResult]
        ELSE IF llm.result.contract_type = "unknown" /\ rules_res.contract_type # "unknown"
        THEN [called |-> TRUE, raised |-> FALSE, result |-> rules_res]
        ELSE [called |-> TRUE, raised |-> FALSE, result |-> llm.result]

\* classify_contract_type after the rule phase gave rules_res, when the
\* service would answer `reply`: whether the service was called, whether the
\* call raised to the caller, and the result returned.
Fallback(rules_res, threshold, reply) ==
    LET llm == _llm_classify(reply)
    IN  IF rules_res.confidence >= threshold
        THEN [called |-> FALSE, raised |-> FALSE, result |-> rules_res]
        ELSE IF llm.raised
        THEN [called |-> TRUE, raised |-> TRUE, result |-> NoResult]
        ELSE IF llm.result.contract_type = "unknown" /\ rules_res.contract_type # "unknown"
        THEN [called |-> TRUE, raised |-> FALSE, result |-> rules_res]
        ELSE [called |-> TRUE, raised |-> FALSE, result |-> llm.result]

\* classify_contract_type(text, llm_fallback_threshold)
classify_contract_type(t, threshold, reply) ==
    Fallback(_rules_classify(t), threshold, reply)

InitCt ==
    /\ pc = "classify"
    /\ ct_text \in SUBSET Phrases
    /\ ct_reply = NoReply
    /\ ct_result = NoResult
    /\ IdleSel /\ IdleSeg /\ IdleAgg /\ IdleApp /\ IdleNlp

\* One call of classify_contract_type; the service, if called, answers in
\* any of the ways it can.
Classify ==
    /\ pc = "classify"
    /\ \E reply \in LlmReplies :
          \E r \in {classify_contract_type(ct_text, LlmFallbackThreshold, reply)} :
              /\ pc' = IF r.raised THEN "raised" ELSE "classified"
              /\ ct_reply' = IF r.called THEN reply ELSE NoReply
              /\ ct_result' = r.result
    /\ UNCHANGED <<ct_text, selVars, segVars, nlpVars, aggVars, appVars>>

NextCt == Classify

SpecCt == InitCt /\ [][NextCt]_vars

\* The rule phase on its own: one call of _rules_classify on the drawn text.
InitRules ==
    /\ pc = "rules"
    /\ ct_text \in SUBSET Phrases
    /\ ct_reply = NoReply
    /\ ct_result = NoResult
    /\ IdleSel /\ IdleSeg /\ IdleAgg /\ IdleApp /\ IdleNlp

RulesClassify ==
    /\ pc = "rules"
    /\ ct_result' = _rules_classify(ct_text)
    /\ pc' = "ruled"
    /\ UNCHANGED <<ct_text, ct_reply, selVars, segVars, nlpVars, aggVars, appVars>>

NextRules == RulesClassify

SpecRules == InitRules /\ [][NextRules]_vars

(***************************************************************************)
(* Classifier properties.                                                  *)
(***************************************************************************)
\* the rule phase found no keyword and no strong pattern for any category
NoRuleSignal == \A i \in 1..Len(Categories) : RuleScore(Categories[i], ct_text) = 0

\* the service was called and answered `unknown` or something unusable
ReplyUnknownOrMalformed ==
    \/ ct_reply.kind \in {"no_json", "bad_json"}
    \/ /\ ct_reply.kind = "json"
       /\ (~ct_reply.has_type \/ ct_reply.contract_type \notin Range(Categories))

\* C4: when the rule phase finds no signal for any category, the fallback is
\* taken and the service answers `unknown` or a malformed response, the
\* result is `unknown` with confidence 0.0 and method external fallback.
C4_UnknownWhenNoSignal ==
    (pc = "classified" /\ NoRuleSignal /\ ReplyUnknownOrMalformed)
        => /\ ct_result.contract_type = "unknown"
           /\ ct_result.confidence = 0
           /\ ct_result.method = "llm"

\* C5: classify_contract_type never raises to its caller, whatever the
\* fallback service does.
C5_NeverRaises == ~(pc = "raised" /\ ct_reply.kind = "raise")

(***************************************************************************)
(* risk/patterns.py and risk/aggregator.py                                 *)
(***************************************************************************)

\* PATTERNS, in source order: flag type, severity and the phrases (a sample
\* of the alternatives of the regular expression) that make it match; the
\* reason string is left out.
PATTERNS ==
    << [flag_type |-> "Indemnity", severity |-> "High", phrases |-> {"indemnify"}],
       [flag_type |-> "Penalty/Liquidated Damages", severity |-> "High",
        phrases |-> {"penalty", "liquidated damages"}],
       [flag_type |-> "Unilateral Termination", severity |-> "High",
        phrases |-> {"terminate at any time", "sole discretion"}],
       [flag_type |-> "Arbitration", severity |-> "Medium", phrases |-> {"arbitration"}],
       [flag_type |-> "Jurisdiction/Governing Law", severity |-> "Medium",
        phrases |-> {"governing law", "jurisdiction"}],
       [flag_type |-> "Auto-Renewal", severity |-> "Medium", phrases |-> {"auto-renew"}],
       [flag_type |-> "Lock-in/Minimum Commitment", severity |-> "High",
        phrases |-> {"lock-in"}],
       [flag_type |-> "Non-Compete", severity |-> "High", phrases |-> {"non-compete"}],
       [flag_type |-> "IP Assignment/Transfer", severity |-> "High",
        phrases |-> {"assigns all IP"}],
       [flag_type |-> "Confidentiality/NDA", severity |-> "Low",
        phrases |-> {"confidential"}] >>

\* detect_red_flags(text)
RECURSIVE FlagsFrom(_, _)
FlagsFrom(t, k) ==
    IF k > Len(PATTERNS) THEN <<>>
    ELSE (IF PatternSearch(PATTERNS[k], t)
          THEN <<[flag_type |-> PATTERNS[k].flag_type, severity |-> PATTERNS[k].severity]>>
          ELSE <<>>) \o FlagsFrom(t, k + 1)

detect_red_flags(t) == FlagsFrom(t, 1)

\* _risk_to_score(risk)
_risk_to_score(risk) ==
    IF risk = "High" THEN 3
    ELSE IF risk = "Medium" THEN 2
    ELSE IF risk = "Low" THEN 1
    ELSE 1

\* Mutation: the lower threshold is taken strictly.
ScoreToOverall_StrictMedium(total, n) ==
    IF 10 * total >= 23 * n THEN "High"
    ELSE IF 10 * total > 17 * n THEN "Medium"
    ELSE "Low"

\* Mutation: an average of 1.0, which only Low and Unclear clauses give, is
\* reported as Unclear.
ScoreToOverall_UnclearAtFloor(total, n) ==
    IF 10 * total >= 23 * n THEN "High"
    ELSE IF 10 * total >= 17 * n THEN "Medium"
    ELSE IF total <= n THEN "Unclear"
    ELSE "Low"

\* _score_to_overall(avg_score) for avg_score = total / n.  The quotient of
\* two integers below 10^14 is at least 2.3 (1.7) as a float exactly when it
\* is as a rational, so the comparison is made on the integers.
_score_to_overall(total, n) ==
    IF 10 * total >= 23 * n THEN "High"
    ELSE IF 10 * total >= 17 * n THEN "Medium"
    ELSE "Low"

\* t[:n]
Slice(t, n) ==
    [len |-> Min(t.len, n), nl |-> IF t.nl <= n THEN t.nl ELSE 0, words |-> t.words]

\* t.replace("\n", " ")
FlattenNewlines(t) == [t EXCEPT !.nl = 0]

\* t + "..."
WithEllipsis(t) == [t EXCEPT !.len = t.len + 3]

\* the length up to which a preview is the clause text itself
PreviewLimit == 220

\* text_preview of a top_high_risk entry
TextPreview(t) ==
    IF t.len > PreviewLimit
    THEN WithEllipsis(FlattenNewlines(Slice(t, PreviewLimit)))
    ELSE t

\* "\n".join of the clause texts
RECURSIVE JoinTexts(_)
JoinTexts(ts) ==
    IF ts = <<>> THEN NoText
    ELSE IF Len(ts) = 1 THEN ts[1]
    ELSE LET rest == JoinTexts(Tail(ts))
             h == Head(ts)
         IN  [len |-> h.len + 1 + rest.len,
              nl |-> IF h.nl # 0 THEN h.nl ELSE h.len + 1,
              words |-> h.words \cup rest.words]

\* the loop over clauses: counts and total
RECURSIVE Tally(_, _)
Tally(cs, acc) ==
    IF cs = <<>> THEN acc
    ELSE LET r == Head(cs).risk_level
         IN  Tally(Tail(cs),
                   [counts |-> [acc.counts EXCEPT ![r] = @ + 1],
                    total |-> acc.total + _risk_to_score(r)])

\* Mutation: the High-risk clauses are collected last first.
RECURSIVE HighRisk_LastFirst(_)
HighRisk_LastFirst(cs) ==
    IF cs = <<>> THEN <<>>
    ELSE IF Head(cs).risk_level = "High" THEN HighRisk_LastFirst(Tail(cs)) \o <<Head(cs)>>
    ELSE HighRisk_LastFirst(Tail(cs))

\* [c for c in clauses if c.risk_level == "High"]
RECURSIVE HighRisk(_)
HighRisk(cs) ==
    IF cs = <<>> THEN <<>>
    ELSE IF Head(cs).risk_level = "High" THEN <<Head(cs)>> \o HighRisk(Tail(cs))
    ELSE HighRisk(Tail(cs))

\* the cap on top_high_risk
TopHighCap == 8

ZeroCounts == [High |-> 0, Medium |-> 0, Low |-> 0, Unclear |-> 0]

\* Mutation: the red flags are searched in the High-risk clauses only.
AggregateContract_FlagsOfHighRisk(cs) ==
    IF cs = <<>>
    THEN [overall_risk |-> "Unclear", avg_score |-> 0, counts |-> ZeroCounts,
          top_high_risk |-> <<>>, red_flags |-> <<>>]
    ELSE LET tally == Tally(cs, [counts |-> ZeroCounts, total |-> 0])
             n == Max(Len(cs), 1)
             high_risk == HighRisk(cs)
             high_risk_sorted == Prefix(high_risk, TopHighCap)
             full_text == JoinTexts([i \in 1..Len(high_risk) |-> high_risk[i].clause_text])
         IN  [overall_risk |-> _score_to_overall(tally.total, n),
              avg_score |-> RoundHalfEven(100 * tally.total, n),
              counts |-> tally.counts,
              top_high_risk |->
                  [i \in 1..Len(high_risk_sorted) |->
                      [clause_id |-> high_risk_sorted[i].clause_id,
                       clause_type |-> high_risk_sorted[i].clause_type,
                       risk_reason |-> high_risk_sorted[i].risk_reason,
                       text_preview |-> TextPreview(high_risk_sorted[i].clause_text)]],
              red_flags |-> detect_red_flags(full_text)]

\* aggregate_contract without its early return for an empty list
AggregateContract_NoEmptyReturn(cs) ==
    LET tally == Tally(cs, [counts |-> ZeroCounts, total |-> 0])
        n == Max(Len(cs), 1)
        high_risk_sorted == Prefix(HighRisk(cs), TopHighCap)
        full_text == JoinTexts([i \in 1..Len(cs) |-> cs[i].clause_text])
    IN  [overall_risk |-> _score_to_overall(tally.total, n),
         avg_score |-> RoundHalfEven(100 * tally.total, n),
         counts |-> tally.counts,
         top_high_risk |->
             [i \in 1..Len(high_risk_sorted) |->
                 [clause_id |-> high_risk_sorted[i].clause_id,
                  clause_type |-> high_risk_sorted[i].clause_type,
                  risk_reason |-> high_risk_sorted[i].risk_reason,
                  text_preview |-> TextPreview(high_risk_sorted[i].clause_text)]],
         red_flags |-> detect_red_flags(full_text)]

\* aggregate_contract(clauses); avg_score is round(avg, 2) in hundredths
aggregate_contract(cs) ==
    IF cs = <<>>
    THEN [overall_risk |-> "Unclear", avg_score |-> 0, counts |-> ZeroCounts,
          top_high_risk |-> <<>>, red_flags |-> <<>>]
    ELSE LET tally == Tally(cs, [counts |-> ZeroCounts, total |-> 0])
             n == Max(Len(cs), 1)
             high_risk_sorted == Prefix(HighRisk(cs), TopHighCap)
             full_text == JoinTexts([i \in 1..Len(cs) |-> cs[i].clause_text])
         IN  [overall_risk |-> _score_to_overall(tally.total, n),
              avg_score |-> RoundHalfEven(100 * tally.total, n),
              counts |-> tally.counts,
              top_high_risk |->
                  [i \in 1..Len(high_risk_sorted) |->
                      [clause_id |-> high_risk_sorted[i].clause_id,
                       clause_type |-> high_risk_sorted[i].clause_type,
                       risk_reason |-> high_risk_sorted[i].risk_reason,
                       text_preview |-> TextPreview(high_risk_sorted[i].clause_text)]],
              red_flags |-> detect_red_flags(full_text)]

(***************************************************************************)
(* Aggregator inputs.                                                      *)
(***************************************************************************)
MaxAggLen == 3         \* longest list drawn with every order of levels and texts
MaxAggCount == 23      \* longest list drawn by its number of clauses per level

RiskLevels == {"High", "Medium", "Low", "Unclear"}

\* Clause texts: short; exactly at the preview limit and holding a newline;
\* one character over the limit with a newline among the first 220; long
\* with its first newline after the first 220.
AggTexts ==
    { [len |-> 40, nl |-> 0, words |-> {"indemnify"}],
      [len |-> 220, nl |-> 100, words |-> {}],
      [len |-> 221, nl |-> 5, words |-> {"arbitration"}],
      [len |-> 300, nl |-> 250, words |-> {}] }

\* The ClauseAnalysis list with the given levels and texts, numbered in order.
Analyses(levels, texts) ==
    [i \in 1..Len(levels) |->
        [clause_id |-> ClauseId(i), clause_text |-> texts[i],
         clause_type |-> "Unknown", risk_level |-> levels[i], risk_reason |-> ""]]

Rep(x, n) == [i \in 1..n |-> x]

\* A list with l Low, h High, u Unclear and m Medium clauses.
ByCounts(h, m, l, u) ==
    LET levels == Rep("Low", l) \o Rep("High", h) \o Rep("Unclear", u) \o Rep("Medium", m)
    IN  Analyses(levels, Rep([len |-> 40, nl |-> 0, words |-> {"indemnify"}], Len(levels)))

AggInputs ==
    {Analyses(ls, ts) : <<ls, ts>> \in
        UNION {[1..k -> RiskLevels] \X [1..k -> AggTexts] : k \in 0..MaxAggLen}}
    \cup
    {ByCounts(c[1], c[2], c[3], c[4]) : c \in
        {d \in (0..MaxAggCount) \X (0..MaxAggCount) \X (0..MaxAggCount) \X (0..MaxAggCount) :
            d[1] + d[2] + d[3] + d[4] \in 1..MaxAggCount}}

InitAgg ==
    /\ pc = "aggregate"
    /\ clause_results \in AggInputs
    /\ summary = NoSummary
    /\ IdleSel /\ IdleSeg /\ IdleCt /\ IdleApp /\ IdleNlp

\* One call of aggregate_contract on the drawn list.
Aggregate ==
    /\ pc = "aggregate"
    /\ summary' = aggregate_contract(clause_results)
    /\ pc' = "aggregated"
    /\ UNCHANGED <<clause_results, selVars, segVars, nlpVars, ctVars, appVars>>

NextAgg == Aggregate

SpecAgg == InitAgg /\ [][NextAgg]_vars

(***************************************************************************)
(* Aggregator properties.                                                  *)
(***************************************************************************)
AggDone == pc = "aggregated"

NumAt(level) ==
    Cardinality({i \in 1..Len(clause_results) : clause_results[i].risk_level = level})

\* sum of the weights High=3, Medium=2, Low=1, Unclear=1
WeightSum == 3 * NumAt("High") + 2 * NumAt("Medium") + NumAt("Low") + NumAt("Unclear")

\* C8: for a non-empty list the overall risk is High exactly when the
\* average weight is >= 2.3, Medium exactly when it is >= 1.7 and < 2.3, and
\* Low otherwise (average = WeightSum / number of clauses).
C8_BucketBoundaries ==
    (AggDone /\ clause_results # <<>>) =>
        LET n == Len(clause_results)
        IN  /\ summary.overall_risk = "High" <=> 10 * WeightSum >= 23 * n
            /\ summary.overall_risk = "Medium" <=>
                   (10 * WeightSum >= 17 * n /\ 10 * WeightSum < 23 * n)
            /\ summary.overall_risk = "Low" <=> 10 * WeightSum < 17 * n

\* Ten clauses averaging exactly 2.3 are rated High.
C8_Witness ==
    /\ AggDone
    /\ Len(clause_results) = 10
    /\ 10 * WeightSum = 23 * Len(clause_results)
    /\ summary.overall_risk = "High"

\* C10: every text preview in top_high_risk has at most 220 characters of
\* clause text, plus the three of the ellipsis, and holds no newline.
C10_PreviewShortAndFlat ==
    AggDone =>
        \A i \in 1..Len(summary.top_high_risk) :
            /\ summary.top_high_risk[i].text_preview.len <= PreviewLimit + 3
            /\ summary.top_high_risk[i].text_preview.nl = 0

(***************************************************************************)
(* llm/ollama_client.py and risk/scoring.py                                *)
(***************************************************************************)

\* What the semantic-risk service can do with one request.  kind "raise":
\* requests.post, raise_for_status or r.json()["message"]["content"] raises.
\* kind "no_json" / "bad_json": the content holds no {...} region, or one
\* json.loads rejects.  kind "json": a parsed object with or without the key
\* risk_level.
ClauseCauses == {"connection_error", "timeout", "http_error", "missing_keys"}
ClauseLevels == {"High", "Medium", "Low", "Critical"}
\* risk_level values that are JSON arrays or objects (written as their JSON
\* text): Python lists and dicts, which are not hashable
ClauseLevelLists == {"[\"High\"]"}

ClauseReplies ==
    {[kind |-> "raise", cause |-> c, has_level |-> FALSE, risk_level |-> ""]
        : c \in ClauseCauses}
    \cup
    {[kind |-> k, cause |-> "", has_level |-> FALSE, risk_level |-> ""]
        : k \in {"no_json", "bad_json"}}
    \cup
    {[kind |-> "json", cause |-> "", has_level |-> TRUE, risk_level |-> l]
        : l \in ClauseLevels \cup ClauseLevelLists}
    \cup
    {[kind |-> "json", cause |-> "", has_level |-> FALSE, risk_level |-> ""]}

\* analyze_clause_with_llm(clause_text) when the service answers `reply`
\* and does not raise: the dict returned (the keys the application reads).
analyze_clause_with_llm(reply) ==
    IF reply.kind = "no_json"
    THEN [clause_type |-> "Unknown", risk_level |-> "Unclear",
          risk_reason |-> "No JSON object found in model output (missing '{' or '}')."]
    ELSE IF reply.kind = "bad_json"
    THEN [clause_type |-> "Unknown", risk_level |-> "Unclear",
          risk_reason |-> "JSONDecodeError"]
    ELSE [clause_type |-> "Unknown",
          risk_level |-> IF reply.has_level THEN reply.risk_level ELSE "Unclear",
          risk_reason |-> ""]

\* normalize_risk(llm_result): the dict returned, or raised when the test
\* `risk not in {"Low", "Medium", "High"}` hashes a list or a dict
\* (TypeError: unhashable type).
normalize_risk(llm_result) ==
    [raised |-> llm_result.risk_level \in ClauseLevelLists,
     clause_type |-> llm_result.clause_type,
     risk_level |-> IF llm_result.risk_level \notin {"Low", "Medium", "High"}
                    THEN "Unclear" ELSE llm_result.risk_level,
     risk_reason |-> llm_result.risk_reason]

(***************************************************************************)
(* app/gradio_app.py: process_upload and analyze_full_contract             *)
(***************************************************************************)

\* str(x) of a float x >= 0 given in hundredths: "0.0", "2.5", "2.33"
FormatScore(h) ==
    ToString(h \div 100) \o "." \o
        (IF h % 10 = 0 THEN ToString((h % 100) \div 10)
         ELSE ToString((h % 100) \div 10) \o ToString(h % 10))

\* counts_line
CountsLine(counts) ==
    "High: " \o ToString(counts.High) \o " | Medium: " \o ToString(counts.Medium)
        \o " | Low: " \o ToString(counts.Low) \o " | Unclear: " \o ToString(counts.Unclear)

\* high_risk_text, one line per entry (the preview is left out of the line)
HighRiskText(s) ==
    IF s.top_high_risk = <<>>
    THEN <<"No High-risk clauses detected in analyzed subset.">>
    ELSE [i \in 1..Len(s.top_high_risk) |->
             "- " \o s.top_high_risk[i].clause_id \o " (" \o s.top_high_risk[i].clause_type
                 \o "): " \o s.top_high_risk[i].risk_reason]

\* red_flags_text, one line per flag
RedFlagsText(s) ==
    IF s.red_flags = <<>>
    THEN <<"No rule-based red flags detected.">>
    ELSE [i \in 1..Len(s.red_flags) |->
             "- [" \o s.red_flags[i].severity \o "] " \o s.red_flags[i].flag_type]

\* The tuple analyze_full_contract returns for an empty clause list; its
\* last element is the empty dict.
EmptyReturn ==
    [overall_risk |-> "Unclear", avg_score |-> "0.0",
     counts_line |-> "High: 0 | Medium: 0 | Low: 0 | Unclear: 0",
     high_risk_text |-> <<"No clauses found.">>, red_flags_text |-> <<"[]">>,
     summary |-> {}]

\* The tuple analyze_full_contract returns after aggregation (the compliance
\* text, computed by another module from the texts alone, is left out).
FullReturn(s) ==
    [overall_risk |-> s.overall_risk, avg_score |-> FormatScore(s.avg_score),
     counts_line |-> CountsLine(s.counts),
     high_risk_text |-> HighRiskText(s), red_flags_text |-> RedFlagsText(s),
     summary |-> {s}]

\* The values analyze_full_contract passes to smart_select_clauses.
AppMaxLlmClauses == 12
AppEnsureBaseline == 2

MaxDocLen == 3         \* most clauses in an uploaded document

AppTexts ==
    { [len |-> 40, nl |-> 0, words |-> {"indemnify"}],
      [len |-> 30, nl |-> 0, words |-> {}] }

\* prep.clauses as dicts: the segmenter numbers the clauses C001, C002, ...
Documents ==
    {[i \in 1..Len(ts) |-> [clause_id |-> ClauseId(i), text |-> ts[i]]]
        : ts \in SeqsUpTo(AppTexts, MaxDocLen)}

\* Documents with more clauses than the budget of the selection: at most one
\* clause, the p-th, has a text the selector scores.
MaxLongDocLen == 14

LongDocuments ==
    {[i \in 1..n |-> [clause_id |-> ClauseId(i),
                      text |-> IF i = p THEN [len |-> 40, nl |-> 0, words |-> {"indemnify"}]
                               ELSE [len |-> 30, nl |-> 0, words |-> {}]]]
        : <<n, p>> \in {x \in (AppMaxLlmClauses..MaxLongDocLen) \X (0..MaxLongDocLen)
                           : x[2] <= x[1]}}

\* The answers drawn for the clauses of a document: every kind of answer for
\* a short document, one verdict and one failure for a long one.
LongDocReplies ==
    {r \in ClauseReplies : \/ r.kind = "raise" /\ r.cause = "connection_error"
                           \/ r.kind = "json" /\ r.risk_level = "High"}

RepliesFor(doc) == IF Len(doc) > MaxDocLen THEN LongDocReplies ELSE ClauseReplies

InitApp ==
    /\ pc = "upload"
    /\ document \in Documents \cup LongDocuments
    /\ upload_return = NoUpload /\ llm_calls = 0 /\ app_return = NoReturn
    /\ raised_by = "" /\ audit_log = <<>> /\ llm_replies = <<>>
    /\ llm_requests = <<>>
    /\ IdleSel /\ IdleSeg /\ IdleCt /\ IdleAgg /\ IdleNlp

\* process_upload(file_path) for an uploaded file.  Loading and
\* preprocessing raise or yield the document; the audit event is appended
\* inside the same try block, so that any exception, the sink's included,
\* ends in the error tuple.
ProcessUpload ==
    /\ pc = "upload"
    /\ \E loaded \in BOOLEAN, written \in BOOLEAN :
          /\ upload_return' =
                IF ~loaded THEN [status |-> "Error: load", clauses_list |-> <<>>]
                ELSE IF ~written THEN [status |-> "Error: audit", clauses_list |-> <<>>]
                ELSE [status |-> "Loaded", clauses_list |-> document]
          /\ audit_log' =
                IF loaded
                THEN Append(audit_log, [event |-> "upload_and_extract", written |-> written])
                ELSE audit_log
          /\ clauses_list' =
                IF loaded /\ written THEN document ELSE <<>>
    /\ pc' = "uploaded"
    /\ UNCHANGED <<max_llm_clauses, ensure_baseline, selected, stats, segVars, nlpVars, ctVars,
                   aggVars, document, llm_calls, app_return, raised_by, llm_replies,
                   llm_requests>>

\* analyze_full_contract(clauses_list) up to the loop over the selection.
AnalyzeStart ==
    /\ pc = "uploaded"
    /\ IF clauses_list = <<>>
       THEN /\ app_return' = EmptyReturn
            /\ pc' = "returned"
            /\ UNCHANGED <<max_llm_clauses, ensure_baseline, selected, stats>>
       ELSE /\ \E r \in {smart_select_clauses(clauses_list, AppMaxLlmClauses,
                                               AppEnsureBaseline)} :
                  /\ selected' = r.selected
                  /\ stats' = r.stats
            /\ max_llm_clauses' = AppMaxLlmClauses
            /\ ensure_baseline' = AppEnsureBaseline
            /\ pc' = "llm_loop"
            /\ UNCHANGED app_return
    /\ UNCHANGED <<clauses_list, segVars, nlpVars, ctVars, aggVars, document, upload_return,
                   llm_calls, raised_by, audit_log, llm_replies, llm_requests>>

\* One iteration of the loop over selected: the request for the next clause
\* and, unless it raises, the ClauseAnalysis appended.
AnalyzeClause ==
    /\ pc = "llm_loop"
    /\ Len(clause_results) < Len(selected)
    /\ LET c == selected[Len(clause_results) + 1]
       IN  \E reply \in RepliesFor(clauses_list) :
              /\ llm_calls' = llm_calls + 1
              /\ llm_replies' = Append(llm_replies, reply)
              /\ llm_requests' = Append(llm_requests,
                                        [clause_id |-> c.clause_id, text |-> c.text])
              /\ IF reply.kind = "raise"
                 THEN /\ pc' = "raised"
                      /\ raised_by' = "analyze_clause_with_llm"
                      /\ UNCHANGED clause_results
                 ELSE \E result \in {normalize_risk(analyze_clause_with_llm(reply))} :
                         IF result.raised
                         THEN /\ pc' = "raised"
                              /\ raised_by' = "normalize_risk"
                              /\ UNCHANGED clause_results
                         ELSE /\ clause_results' =
                                    Append(clause_results,
                                           [clause_id |-> c.clause_id,
                                            clause_text |-> c.text,
                                            clause_type |-> result.clause_type,
                                            risk_level |-> result.risk_level,
                                            risk_reason |-> result.risk_reason])
                              /\ UNCHANGED <<pc, raised_by>>
    /\ UNCHANGED <<selVars, segVars, nlpVars, ctVars, summary, document, upload_return,
                   app_return, audit_log>>

\* After the loop: summary = aggregate_contract(clause_results).
AggregateResults ==
    /\ pc = "llm_loop"
    /\ Len(clause_results) = Len(selected)
    /\ summary' = aggregate_contract(clause_results)
    /\ pc' = "audit"
    /\ UNCHANGED <<selVars, segVars, nlpVars, ctVars, clause_results, appVars>>

\* append_audit_event(...) and the return; the sink writes the event or
\* raises, and nothing around the call catches.
AuditAndReturn ==
    /\ pc = "audit"
    /\ \E written \in BOOLEAN :
          /\ audit_log' = Append(audit_log, [event |-> "llm_contract_analysis_smart_select",
                                             written |-> written])
          /\ IF written
             THEN /\ app_return' = FullReturn(summary)
                  /\ pc' = "returned"
                  /\ UNCHANGED raised_by
             ELSE /\ pc' = "raised"
                  /\ raised_by' = "append_audit_event"
                  /\ UNCHANGED app_return
    /\ UNCHANGED <<selVars, segVars, nlpVars, ctVars, aggVars, document, upload_return, llm_calls,
                   llm_replies, llm_requests>>

NextApp ==
    \/ ProcessUpload
    \/ AnalyzeStart
    \/ AnalyzeClause
    \/ AggregateResults
    \/ AuditAndReturn

SpecApp == InitApp /\ [][NextApp]_vars

(***************************************************************************)
(* Properties of the application handlers                                  *)
(***************************************************************************)

AppReturned == pc = "returned"

\* C3: during full-contract analysis a failed semantic-risk call (network
\* error, timeout, HTTP error status, malformed response) never aborts the
\* batch: the handler is never left by an exception of
\* analyze_clause_with_llm, so that every selected clause gets a verdict
\* and a summary is produced.
C3_FailedCallNeverAborts ==
    ~(pc = "raised" /\ raised_by = "analyze_clause_with_llm")

\* C6: an audit event that could not be written never fails the analysis:
\* process_upload still returns the loaded document's clauses, and
\* analyze_full_contract is never left by the sink's exception.
C6_AuditFailureHarmless ==
    /\ \A i \in 1..Len(audit_log) :
          (audit_log[i].event = "upload_and_extract" /\ pc # "upload")
              => (upload_return.status = "Loaded"
                  /\ upload_return.clauses_list = document)
    /\ ~(pc = "raised" /\ raised_by = "append_audit_event")

\* C9: aggregate_contract on the empty list returns overall Unclear,
\* average 0.0, zero for each of the four counts and empty top_high_risk
\* and red_flags lists; analyze_full_contract on an empty clause list
\* returns the same overall risk, average and counts, lists no High-risk
\* clause and no red flag, and has made no request to the semantic-risk
\* service.
C9_EmptyCase ==
    (AppReturned /\ clauses_list = <<>>)
        => LET s == aggregate_contract(<<>>)
           IN  /\ s.overall_risk = "Unclear"
               /\ s.avg_score = 0
               /\ \A l \in {"High", "Medium", "Low", "Unclear"} : s.counts[l] = 0
               /\ s.top_high_risk = <<>>
               /\ s.red_flags = <<>>
               /\ app_return.overall_risk = s.overall_risk
               /\ app_return.avg_score = FormatScore(s.avg_score)
               /\ app_return.counts_line = CountsLine(s.counts)
               /\ app_return.high_risk_text = <<"No clauses found.">>
               /\ app_return.red_flags_text = <<"[]">>
               /\ app_return.summary = {}
               /\ llm_calls = 0
               /\ raised_by = ""

C9_Witness ==
    /\ AppReturned
    /\ upload_return.status = "Loaded"
    /\ clauses_list = <<>>
    /\ app_return = EmptyReturn

(***************************************************************************)
(* Further properties of the aggregator                                    *)
(***************************************************************************)

\* The position in clause_results of the i-th High-risk clause.
NthHigh(i) ==
    CHOOSE k \in 1..Len(clause_results) :
        /\ clause_results[k].risk_level = "High"
        /\ Cardinality({j \in 1..(k - 1) : clause_results[j].risk_level = "High"}) = i - 1

\* C11: top_high_risk has min(8, number of High clauses) entries, and its
\* i-th entry is the i-th High-risk clause of the input, in input order
\* (its id, type and reason); no clause of another level appears.
C11_TopHighRiskFirstEight ==
    AggDone =>
        /\ Len(summary.top_high_risk) = Min(8, NumAt("High"))
        /\ \A i \in 1..Len(summary.top_high_risk) :
              LET c == clause_results[NthHigh(i)]
                  e == summary.top_high_risk[i]
              IN  /\ c.risk_level = "High"
                  /\ e.clause_id = c.clause_id
                  /\ e.clause_type = c.clause_type
                  /\ e.risk_reason = c.risk_reason

\* More than eight High clauses, behind clauses of another level.
C11_Witness ==
    /\ AggDone
    /\ NumAt("High") > 8
    /\ clause_results[1].risk_level # "High"
    /\ Len(summary.top_high_risk) = 8

(***************************************************************************)
(* Further properties of the classifier                                    *)
(***************************************************************************)

\* the call of classify_contract_type has ended, by a return or an exception
CtEnded == pc \in {"classified", "raised"}

\* the fallback service was called
CtCalled == ct_reply # NoReply

\* C14: the fallback service is called exactly when the rule-phase
\* confidence is below 0.55; at 0.55 or more the rule-phase result is
\* returned unchanged, with method rules, and no call is made.
C14_FallbackExactlyBelowThreshold ==
    CtEnded =>
        LET rules_res == _rules_classify(ct_text)
        IN  /\ CtCalled <=> rules_res.confidence < 55
            /\ rules_res.confidence >= 55 =>
                  /\ pc = "classified"
                  /\ ct_result = rules_res
                  /\ ct_result.method = "rules"

\* A rule-phase confidence of exactly 0.55 was returned without a call.
C14_Witness ==
    /\ pc = "classified"
    /\ _rules_classify(ct_text).confidence = 55
    /\ ~CtCalled
    /\ ct_result.method = "rules"

\* the service was called and its answer names the type `unknown`
ReplySaysUnknown ==
    /\ ct_reply.kind = "json" /\ ct_reply.has_type /\ ct_reply.contract_type = "unknown"

\* C15: when the fallback is taken and the service answers `unknown` while
\* the rule phase produced another category, the rule-phase result is
\* returned (label, confidence, method and evidence); a returned label is
\* never `unknown` when the rule-phase label is not.
C15_UnknownNeverReplacesRules ==
    pc = "classified" =>
        LET rules_res == _rules_classify(ct_text)
        IN  rules_res.contract_type # "unknown" =>
                /\ ct_result.contract_type # "unknown"
                /\ ReplySaysUnknown => ct_result = rules_res

\* The fallback was taken, the service said `unknown`, the rule result stood.
C15_Witness ==
    /\ pc = "classified"
    /\ ReplySaysUnknown
    /\ ct_result.method = "rules"
    /\ ct_result.contract_type \in Range(Categories)

RulesDone == pc = "ruled"

\* the category scores of a text, in the order of the categories
RECURSIVE ScoreSeq(_, _)
ScoreSeq(t, i) ==
    IF i > Len(Categories) THEN <<>>
    ELSE <<RuleScore(Categories[i], t)>> \o ScoreSeq(t, i + 1)

\* the highest of the scores, and the highest among the others
BestOf(sc) == CHOOSE b \in Range(sc) : \A i \in 1..Len(sc) : sc[i] <= b

SecondOf(sc) ==
    LET top == CHOOSE i \in 1..Len(sc) : sc[i] = BestOf(sc)
    IN  CHOOSE s \in {sc[i] : i \in 1..Len(sc) \ {top}} :
            \A i \in 1..Len(sc) \ {top} : sc[i] <= s

BestScore(t) == BestOf(ScoreSeq(t, 1))
SecondScore(t) == SecondOf(ScoreSeq(t, 1))

\* C16: whenever the best category score is 0 or 1 the rule-phase
\* confidence is exactly 0.30, whichever category is ranked first and
\* whatever the second-best score.
C16_LowSignalFloor ==
    (RulesDone /\ BestScore(ct_text) <= 1) => ct_result.confidence = 30

\* Best and second-best score both 1, and the first category of the
\* vocabulary is not the one ranked first.
C16_Witness ==
    /\ RulesDone
    /\ BestScore(ct_text) = 1 /\ SecondScore(ct_text) = 1
    /\ ct_result.contract_type # Categories[1]
    /\ ct_result.confidence = 30

\* For every text: its best score, the margin to the second-best score and
\* the confidence the rule phase gives it.
RowOf(t) ==
    LET sc == ScoreSeq(t, 1)
    IN  [best |-> BestOf(sc), margin |-> BestOf(sc) - SecondOf(sc),
         confidence |-> _rules_classify(t).confidence]

RuleRows == {RowOf(t) : t \in SUBSET Phrases}

\* C17: for a fixed best score the rule-phase confidence is non-decreasing
\* in the margin between the best and the second-best score, also after the
\* cap at 0.95 and the rounding: no text with the same best score and a
\* margin at least as large gets a smaller confidence.
C17_ConfidenceMonotoneInMargin ==
    RulesDone =>
        LET own == RowOf(ct_text)
        IN  \A r \in RuleRows :
                (r.best = own.best /\ r.margin >= own.margin)
                    => r.confidence >= ct_result.confidence

\* A text below the cap for which another text has the same best score, a
\* larger margin and a larger confidence, and a third one reaches the cap.
C17_Witness ==
    /\ RulesDone
    /\ ct_result.confidence \in 31..94
    /\ LET own == RowOf(ct_text)
       IN  /\ \E r \in RuleRows :
                 /\ r.best = own.best /\ r.margin > own.margin
                 /\ r.confidence \in (ct_result.confidence + 1)..94
           /\ \E r \in RuleRows :
                 /\ r.best = own.best /\ r.margin > own.margin
                 /\ r.confidence = 95

\* the service answered with a label outside the vocabulary, or with a
\* confidence that is out of range or not a number
ReplyOutOfContract ==
    /\ ct_reply.kind = "json"
    /\ \/ ct_reply.has_type /\ ct_reply.contract_type \notin Range(CONTRACT_TYPES)
       \/ ct_reply.has_conf /\ ct_reply.conf_kind # "number"
       \/ ct_reply.has_conf /\ ct_reply.conf_kind = "number" /\ ct_reply.conf \notin 0..1000

\* C18: every result classify_contract_type returns has a label of the
\* category vocabulary or `unknown` and a confidence in [0, 1], also when
\* the service answers with a label outside the vocabulary or a confidence
\* that is out of range or not a number.
C18_ResultWithinContract ==
    pc = "classified" =>
        /\ ct_result.contract_type \in
              {"employment_agreement", "vendor_contract", "lease_agreement",
               "partnership_deed", "service_contract", "unknown"}
        /\ ct_result.confidence \in 0..100

\* The fallback result was returned for an answer with an out-of-range
\* confidence.
C18_Witness ==
    /\ pc = "classified"
    /\ ReplyOutOfContract
    /\ ct_reply.conf = 1500
    /\ ct_result.method = "llm"
    /\ ct_result.confidence = 100

(***************************************************************************)
(* Further properties of the application handlers                          *)
(***************************************************************************)

\* the answer holds no JSON object, invalid JSON, no risk level, or a risk
\* level other than Low, Medium and High
ReplyWithoutLevel(reply) ==
    \/ reply.kind \in {"no_json", "bad_json"}
    \/ /\ reply.kind = "json"
       /\ (~reply.has_level \/ reply.risk_level \notin {"Low", "Medium", "High"})

\* C19: every verdict handed to the aggregator has a risk level among Low,
\* Medium, High and Unclear, and every answer without a JSON object, with
\* invalid JSON, with no risk level or with a risk level other than Low,
\* Medium and High has given its clause the verdict Unclear.
C19_VerdictLevelsNormalized ==
    /\ \A i \in 1..Len(clause_results) :
          clause_results[i].risk_level \in {"Low", "Medium", "High", "Unclear"}
    /\ \A i \in 1..Len(llm_replies) :
          ReplyWithoutLevel(llm_replies[i])
              => /\ i <= Len(clause_results)
                 /\ clause_results[i].risk_level = "Unclear"

\* The list cs with the same ids and texts in the same order, every risk
\* level, clause type and risk reason replaced.
SameTextsOtherVerdicts(cs) ==
    [i \in 1..Len(cs) |->
        [clause_id |-> cs[i].clause_id, clause_text |-> cs[i].clause_text,
         clause_type |-> "Other", risk_level |-> "Unclear", risk_reason |-> "n/a"]]

\* C20: the red flags depend on the clause texts only: the list with the
\* same texts in the same order and other risk levels, clause types and
\* risk reasons gets the same red_flags list (so any two lists with the
\* same texts get the same one).
C20_RedFlagsFromTextsOnly ==
    AggDone =>
        aggregate_contract(SameTextsOtherVerdicts(clause_results)).red_flags
            = summary.red_flags

\* Red flags were found in a list that mixes High-risk and other clauses.
C20_Witness ==
    /\ AggDone
    /\ Len(summary.red_flags) >= 2
    /\ NumAt("High") >= 1 /\ NumAt("Low") >= 1
    /\ SameTextsOtherVerdicts(clause_results) # clause_results

(***************************************************************************)
(* src/nlp/deontic.py                                                      *)
(*                                                                         *)
(* The text is represented by the candidates re.split hands to the loop,   *)
(* in document order and already cleaned by _clean_line.  A candidate is   *)
(* represented by what the code reads of it: its lower-cased form (lower), *)
(* whether it is spelt in capitals (upper; two candidates with the same    *)
(* lower-cased form and different spelling are different strings), its     *)
(* length (len) and the modal phrases written in it (written).             *)
(***************************************************************************)
OBLIGATION_PAT == {"shall", "must", "is required to", "are required to", "will"}
RIGHT_PAT == {"may", "is entitled to", "are entitled to", "can"}
PROHIBITION_PAT ==
    {"shall not", "must not", "may not", "is prohibited from", "are prohibited from"}

\* The alternatives of the three patterns that occur as whole words where the
\* phrase w is written: "shall not" is also an occurrence of "shall".
WholeWordsOf(w) ==
    CASE w = "shall not" -> {"shall not", "shall"}
      [] w = "must not" -> {"must not", "must"}
      [] w = "may not" -> {"may not", "may"}
      [] OTHER -> {w}

\* PAT.search(s), case-insensitive
DeonticSearch(pat, s) == \E w \in s.written : WholeWordsOf(w) \cap pat # {}

MinUnitLen == 12

\* The if / elif chain of the loop: the list the candidate is appended to.
DeonticCategory_ObligationFirst(s) ==
    IF DeonticSearch(OBLIGATION_PAT, s) THEN "obligations"
    ELSE IF DeonticSearch(PROHIBITION_PAT, s) THEN "prohibitions"
    ELSE IF DeonticSearch(RIGHT_PAT, s) THEN "rights"
    ELSE "none"
DeonticCategory(s) ==
    IF DeonticSearch(PROHIBITION_PAT, s) THEN "prohibitions"
    ELSE IF DeonticSearch(OBLIGATION_PAT, s) THEN "obligations"
    ELSE IF DeonticSearch(RIGHT_PAT, s) THEN "rights"
    ELSE "none"

NoLists == [obligations |-> <<>>, rights |-> <<>>, prohibitions |-> <<>>]

\* The loop over the candidates from candidate k on, with the lists so far.
RECURSIVE DeonticLoop(_, _, _, _)
DeonticLoop(units, k, lists, max) ==
    IF k > Len(units) THEN lists
    ELSE LET s == units[k]
         IN  IF s.len < MinUnitLen THEN DeonticLoop(units, k + 1, lists, max)
             ELSE LET cat == DeonticCategory(s)
                      next == IF cat = "none" THEN lists
                              ELSE [lists EXCEPT ![cat] = Append(@, s)]
                  IN  IF /\ Len(next.obligations) >= max
                         /\ Len(next.rights) >= max
                         /\ Len(next.prohibitions) >= max
                      THEN next
                      ELSE DeonticLoop(units, k + 1, next, max)

RECURSIVE DedupeFrom(_, _, _)
DedupeFrom(items, k, seen) ==
    IF k > Len(items) THEN <<>>
    ELSE IF items[k].lower \in seen THEN DedupeFrom(items, k + 1, seen)
    ELSE <<items[k]>> \o DedupeFrom(items, k + 1, seen \cup {items[k].lower})

dedupe(items) == DedupeFrom(items, 1, {})

extract_deontic_statements(units, max) ==
    LET lists == DeonticLoop(units, 1, NoLists, max)
        obligations == Prefix(dedupe(lists.obligations), max)
        rights == Prefix(dedupe(lists.rights), max)
        prohibitions == Prefix(dedupe(lists.prohibitions), max)
    IN  [obligations |-> obligations, rights |-> rights, prohibitions |-> prohibitions,
         counts |-> [obligations |-> Len(obligations), rights |-> Len(rights),
                     prohibitions |-> Len(prohibitions)]]

MaxDeoLen == 4
MaxItemsEach == 2

DeoSentences ==
    { [lower |-> "the vendor shall not assign and may sell.", len |-> 41,
       written |-> {"shall not", "may"}],
      [lower |-> "the client is prohibited from resale.", len |-> 37,
       written |-> {"is prohibited from"}],
      [lower |-> "the vendor shall deliver and may invoice.", len |-> 41,
       written |-> {"shall", "may"}],
      [lower |-> "the client may inspect the goods.", len |-> 33,
       written |-> {"may"}],
      [lower |-> "this agreement is dated today.", len |-> 30, written |-> {}],
      [lower |-> "a may not.", len |-> 10, written |-> {"may not"}] }

Spelt(s, upper) ==
    [lower |-> s.lower, upper |-> upper, len |-> s.len, written |-> s.written]

DeoUnits ==
    {Spelt(s, FALSE) : s \in DeoSentences}
        \cup {Spelt(s, TRUE) : s \in {x \in DeoSentences : "shall" \in x.written
                                                           \/ "shall not" \in x.written}}

\* Longer texts, of the sentences that are listed, so that sentences repeat.
MaxDeoRepeatLen == 7

DeoRepeatUnits ==
    {Spelt(s, FALSE) : s \in {x \in DeoSentences : x.written # {} /\ x.len >= MinUnitLen}}

InitDeo ==
    /\ pc = "extract"
    /\ deo_units \in SeqsUpTo(DeoUnits, MaxDeoLen)
                        \cup SeqsUpTo(DeoRepeatUnits, MaxDeoRepeatLen)
    /\ max_items_each \in 1..MaxItemsEach
    /\ deontic = NoDeontic
    /\ amb_sentences = <<>> /\ max_hits = 0 /\ ambiguity = NoAmbiguity
    /\ IdleSel /\ IdleSeg /\ IdleCt /\ IdleAgg /\ IdleApp

ExtractDeontic ==
    /\ pc = "extract"
    /\ deontic' = extract_deontic_statements(deo_units, max_items_each)
    /\ pc' = "extracted"
    /\ UNCHANGED <<deo_units, max_items_each, amb_sentences, max_hits, ambiguity,
                   selVars, segVars, ctVars, aggVars, appVars>>

NextDeo == ExtractDeontic

SpecDeo == InitDeo /\ [][NextDeo]_vars

DeoDone == pc = "extracted"

Listed(s, cat) == s \in Range(deontic[cat])

DeoCategories == {"prohibitions", "obligations", "rights"}

\* C22: every sentence-like unit is listed under at most one of the three
\* categories, by strict precedence: a unit matching a prohibition phrase is
\* never listed as an obligation or a right, a unit matching an obligation
\* phrase and no prohibition phrase is never listed as a right or a
\* prohibition, a unit is listed as a right only when it matches a right
\* phrase and neither of the other two, and the first unit of the text, when
\* long enough to be considered, is listed under the category of highest
\* precedence it matches.
C22_AtMostOneCategoryByPrecedence ==
    DeoDone =>
        \A s \in DeoUnits :
            /\ Cardinality({cat \in DeoCategories : Listed(s, cat)}) <= 1
            /\ DeonticSearch(PROHIBITION_PAT, s) =>
                   ~Listed(s, "obligations") /\ ~Listed(s, "rights")
            /\ (DeonticSearch(OBLIGATION_PAT, s) /\ ~DeonticSearch(PROHIBITION_PAT, s)) =>
                   ~Listed(s, "rights") /\ ~Listed(s, "prohibitions")
            /\ Listed(s, "rights") =>
                   /\ DeonticSearch(RIGHT_PAT, s)
                   /\ ~DeonticSearch(OBLIGATION_PAT, s)
                   /\ ~DeonticSearch(PROHIBITION_PAT, s)
            /\ Listed(s, "obligations") => DeonticSearch(OBLIGATION_PAT, s)
            /\ Listed(s, "prohibitions") => DeonticSearch(PROHIBITION_PAT, s)
            /\ (deo_units # <<>> /\ s = deo_units[1] /\ s.len >= MinUnitLen) =>
                   /\ DeonticSearch(PROHIBITION_PAT, s) => Listed(s, "prohibitions")
                   /\ (DeonticSearch(OBLIGATION_PAT, s)
                          /\ ~DeonticSearch(PROHIBITION_PAT, s)) => Listed(s, "obligations")

\* A unit matching all three patterns was listed, as a prohibition, next to a
\* unit matching obligation and right that was listed as an obligation.
C22_Witness ==
    /\ DeoDone
    /\ \E s \in Range(deontic.prohibitions) :
           DeonticSearch(OBLIGATION_PAT, s) /\ DeonticSearch(RIGHT_PAT, s)
    /\ \E s \in Range(deontic.obligations) : DeonticSearch(RIGHT_PAT, s)
    /\ deontic.rights # <<>>

\* The candidates of the text that are considered and fall into category cat,
\* in document order.
RECURSIVE MatchingFrom(_, _)
MatchingFrom(k, cat) ==
    IF k > Len(deo_units) THEN <<>>
    ELSE LET s == deo_units[k]
             hit == /\ s.len >= MinUnitLen
                    /\ CASE cat = "prohibitions" -> DeonticSearch(PROHIBITION_PAT, s)
                         [] cat = "obligations" ->
                                /\ DeonticSearch(OBLIGATION_PAT, s)
                                /\ ~DeonticSearch(PROHIBITION_PAT, s)
                         [] OTHER ->
                                /\ DeonticSearch(RIGHT_PAT, s)
                                /\ ~DeonticSearch(OBLIGATION_PAT, s)
                                /\ ~DeonticSearch(PROHIBITION_PAT, s)
         IN  (IF hit THEN <<s>> ELSE <<>>) \o MatchingFrom(k + 1, cat)

\* The first occurrence of each lower-cased form, in order.
RECURSIVE FirstSeen(_, _)
FirstSeen(items, k) ==
    IF k > Len(items) THEN <<>>
    ELSE (IF \E j \in 1..(k - 1) : items[j].lower = items[k].lower
          THEN <<>> ELSE <<items[k]>>) \o FirstSeen(items, k + 1)

FirstDistinctMatching(cat) ==
    LET distinct == FirstSeen(MatchingFrom(1, cat), 1)
    IN  SubSeq(distinct, 1, Min(max_items_each, Len(distinct)))

\* C23: each category list equals the first max_items_each case-insensitively
\* distinct matching sentences of that category in document order; in
\* particular no distinct matching sentence is omitted while the list has
\* fewer than max_items_each items.
C23_ListsAreFirstDistinctMatches ==
    DeoDone => \A cat \in DeoCategories : deontic[cat] = FirstDistinctMatching(cat)

\* What does hold: no duplicates, first-seen order, at most max_items_each
\* items, every item a matching sentence of its category.
C23_ListsArePrefixOrdered ==
    DeoDone =>
        \A cat \in DeoCategories :
            /\ Len(deontic[cat]) <= max_items_each
            /\ \A i, j \in 1..Len(deontic[cat]) :
                   i # j => deontic[cat][i].lower # deontic[cat][j].lower
            /\ \E n \in 0..Len(FirstSeen(MatchingFrom(1, cat), 1)) :
                   deontic[cat] = SubSeq(FirstSeen(MatchingFrom(1, cat), 1), 1, n)

(***************************************************************************)
(* src/nlp/ambiguity.py                                                    *)
(*                                                                         *)
(* The text is represented by the sentences SENT_SPLIT.split yields, in    *)
(* order; a sentence by its length (len) and the vague phrases that occur  *)
(* in it (words).  A hit is represented by its label and weight; its match *)
(* and snippet strings are left out.                                       *)
(***************************************************************************)
AMBIGUITY_PATTERNS ==
    << [label |-> "reasonable", weight |-> 2, phrases |-> {"reasonable"}],
       [label |-> "best efforts", weight |-> 3,
        phrases |-> {"best efforts", "commercially reasonable efforts"}],
       [label |-> "promptly / asap", weight |-> 2,
        phrases |-> {"promptly", "as soon as possible", "asap"}],
       [label |-> "material / substantial", weight |-> 3,
        phrases |-> {"material", "substantial"}],
       [label |-> "from time to time", weight |-> 2, phrases |-> {"from time to time"}],
       [label |-> "including but not limited to", weight |-> 2,
        phrases |-> {"including but not limited to"}],
       [label |-> "sole discretion", weight |-> 4,
        phrases |-> {"sole discretion", "at its discretion", "at their discretion"}],
       [label |-> "to the satisfaction of", weight |-> 3,
        phrases |-> {"to the satisfaction of", "satisfactory to"}],
       [label |-> "as determined by", weight |-> 3,
        phrases |-> {"as determined by", "as decided by"}],
       [label |-> "may amend / may change", weight |-> 3,
        phrases |-> {"may amend", "may modify", "may change"}],
       [label |-> "in its opinion", weight |-> 3,
        phrases |-> {"in its opinion", "in their opinion"}],
       [label |-> "as applicable", weight |-> 2, phrases |-> {"as applicable"}],
       [label |-> "etc / and so on", weight |-> 1, phrases |-> {"and so on"}] >>

MinSentenceLen == 8

\* The two nested loops, from sentence k and pattern j on, with the hits and
\* the score so far.
RECURSIVE AmbiguityScan(_, _, _, _, _, _)
AmbiguityScan(sentences, k, j, hits, score, max) ==
    IF k > Len(sentences) THEN [hits |-> hits, score |-> score]
    ELSE IF sentences[k].len < MinSentenceLen
         THEN AmbiguityScan(sentences, k + 1, 1, hits, score, max)
    ELSE IF j > Len(AMBIGUITY_PATTERNS)
         THEN IF Len(hits) >= max THEN [hits |-> hits, score |-> score]
              ELSE AmbiguityScan(sentences, k + 1, 1, hits, score, max)
    ELSE LET p == AMBIGUITY_PATTERNS[j]
         IN  IF ~PatternSearch(p, sentences[k])
             THEN AmbiguityScan(sentences, k, j + 1, hits, score, max)
             ELSE LET grown == Append(hits, [label |-> p.label, weight |-> p.weight])
                  IN  IF Len(grown) >= max
                      THEN [hits |-> grown, score |-> score + p.weight]
                      ELSE AmbiguityScan(sentences, k, j + 1, grown,
                                         score + p.weight, max)

AmbiguityLevel_StrictHigh(score) ==
    IF score > 10 THEN "High"
    ELSE IF score >= 5 THEN "Medium"
    ELSE IF score >= 1 THEN "Low"
    ELSE "None"
AmbiguityLevel(score) ==
    IF score >= 10 THEN "High"
    ELSE IF score >= 5 THEN "Medium"
    ELSE IF score >= 1 THEN "Low"
    ELSE "None"

detect_ambiguity(sentences, max) ==
    LET scan == AmbiguityScan(sentences, 1, 1, <<>>, 0, max)
    IN  [hits |-> scan.hits, score |-> scan.score, level |-> AmbiguityLevel(scan.score)]

MaxAmbLen == 3
MaxHitsTried == 3
DefaultMaxHits == 20

AmbSentences ==
    { [len |-> 40, words |-> {"reasonable"}],
      [len |-> 60, words |-> {"best efforts", "material"}],
      [len |-> 50, words |-> {"sole discretion"}],
      [len |-> 30, words |-> {"and so on"}],
      [len |-> 5, words |-> {"asap"}],
      [len |-> 30, words |-> {}] }

InitAmb ==
    /\ pc = "detect"
    /\ amb_sentences \in SeqsUpTo(AmbSentences, MaxAmbLen)
    /\ max_hits \in (1..MaxHitsTried) \cup {DefaultMaxHits}
    /\ ambiguity = NoAmbiguity
    /\ deo_units = <<>> /\ max_items_each = 0 /\ deontic = NoDeontic
    /\ IdleSel /\ IdleSeg /\ IdleCt /\ IdleAgg /\ IdleApp

DetectAmbiguity ==
    /\ pc = "detect"
    /\ ambiguity' = detect_ambiguity(amb_sentences, max_hits)
    /\ pc' = "detected"
    /\ UNCHANGED <<amb_sentences, max_hits, deo_units, max_items_each, deontic,
                   selVars, segVars, ctVars, aggVars, appVars>>

NextAmb == DetectAmbiguity

SpecAmb == InitAmb /\ [][NextAmb]_vars

AmbDone == pc = "detected"

RECURSIVE HitWeights(_, _)
HitWeights(hits, k) ==
    IF k > Len(hits) THEN 0 ELSE hits[k].weight + HitWeights(hits, k + 1)

RECURSIVE MatchCount(_)
MatchCount(k) ==
    IF k > Len(amb_sentences) THEN 0
    ELSE (IF amb_sentences[k].len < MinSentenceLen THEN 0
          ELSE Cardinality({j \in 1..Len(AMBIGUITY_PATTERNS) :
                               PatternSearch(AMBIGUITY_PATTERNS[j], amb_sentences[k])}))
         + MatchCount(k + 1)

C25_UnclearOnlyForEmptyList ==
    AggDone => (summary.overall_risk = "Unclear" <=> clause_results = <<>>)

\* A non-empty list whose clauses are all Unclear was aggregated, to Low.
C25_Witness ==
    /\ AggDone
    /\ Len(clause_results) >= 2
    /\ \A i \in 1..Len(clause_results) : clause_results[i].risk_level = "Unclear"
    /\ summary.overall_risk = "Low"

\* C30: the overall risk is the bucket of the avg_score reported in the same
\* summary (in hundredths): High whenever avg_score >= 2.30, Medium whenever
\* 1.70 <= avg_score < 2.30, for lists of every length.
C30_OverallIsBucketOfReportedAverage ==
    (AggDone /\ clause_results # <<>>) =>
        /\ summary.avg_score >= 230 => summary.overall_risk = "High"
        /\ (summary.avg_score >= 170 /\ summary.avg_score < 230) =>
               summary.overall_risk = "Medium"

(***************************************************************************)
(* analyze_full_contract: the calls of the semantic-risk service           *)
(***************************************************************************)
AppEnded == pc \in {"returned", "raised"}

Aggregated == pc \in {"audit", "returned"} \/ raised_by = "append_audit_event"

SelectedClauses ==
    [i \in 1..Len(selected) |-> [clause_id |-> selected[i].clause_id,
                                 text |-> selected[i].text]]

VerdictClauses ==
    [i \in 1..Len(clause_results) |-> [clause_id |-> clause_results[i].clause_id,
                                       text |-> clause_results[i].clause_text]]

\* C26: on a non-empty clause list the semantic-risk service is called
\* exactly once for each selected clause, in selection order, hence at most
\* 12 times, and aggregate_contract runs only after the last call, on one
\* verdict per selected clause carrying that clause's id and text.
C26_OneCallPerSelectedClause ==
    /\ (AppEnded /\ clauses_list # <<>>) =>
           /\ llm_requests = SelectedClauses
           /\ llm_calls = Len(selected)
           /\ llm_calls <= 12
    /\ (Aggregated /\ clauses_list # <<>>) =>
           /\ llm_requests = SelectedClauses
           /\ VerdictClauses = SelectedClauses

\* What holds in every state: the calls made so far are the first selected
\* clauses in selection order, one call each, at most 12; and once
\* aggregate_contract has run there is one call and one verdict per selected
\* clause.
C26_CallsFollowSelection ==
    /\ llm_calls = Len(llm_requests)
    /\ llm_calls <= Len(selected) /\ llm_calls <= 12
    /\ llm_requests = SubSeq(SelectedClauses, 1, llm_calls)
    /\ VerdictClauses = SubSeq(SelectedClauses, 1, Len(clause_results))
    /\ (Aggregated /\ clauses_list # <<>>) =>
           /\ llm_requests = SelectedClauses
           /\ VerdictClauses = SelectedClauses

\* A document of more than 12 clauses was analysed to the end with 12 calls,
\* in a selection order that is not the document order.
C26_LongDocumentWitness ==
    /\ pc = "returned"
    /\ Len(clauses_list) > 12
    /\ llm_calls = 12
    /\ selected[3].clause_id # "C003"

(***************************************************************************)
(* smart_select_clauses: the statistics                                    *)
(***************************************************************************)
BaselinePositions == 1..Min(Max(ensure_baseline, 0), Len(clauses_list))

SelectedScores == {selected[k].score : k \in 1..Len(selected)}

\* s lists the at most 5 highest values of S, highest first
TopFiveOf(s, S) ==
    /\ Len(s) = Min(5, Cardinality(S))
    /\ \A i \in 1..Len(s) : s[i] \in S
    /\ \A i \in 1..Len(s) : \A j \in 1..Len(s) : i < j => s[i] > s[j]
    /\ \A x \in S : (\A i \in 1..Len(s) : s[i] # x) => \A i \in 1..Len(s) : x < s[i]

\* C27: the statistics describe the returned selection: total_clauses is the
\* input length, selected_for_llm the length of the selection,
\* max_llm_clauses the budget, baseline_included the number of baseline
\* clauses that are in the selection, and top_scores the at most 5 highest
\* distinct scores of the selection, highest first.
C27_StatsDescribeSelection ==
    SelDone =>
        /\ stats.total_clauses = Len(clauses_list)
        /\ stats.selected_for_llm = Len(selected)
        /\ stats.max_llm_clauses = max_llm_clauses
        /\ stats.baseline_included = Cardinality({i \in BaselinePositions : InSelection(i)})
        /\ TopFiveOf(stats.top_scores, SelectedScores)

\* What holds: the statistics with baseline_included read as the number of
\* baseline clauses considered, selected or not.
C27_StatsWithBaselineConsidered ==
    SelDone =>
        /\ stats.total_clauses = Len(clauses_list)
        /\ stats.selected_for_llm = Len(selected)
        /\ stats.max_llm_clauses = max_llm_clauses
        /\ stats.baseline_included = Cardinality(BaselinePositions)
        /\ \A i \in BaselinePositions : FreshId(i) => InSelection(i)
        /\ TopFiveOf(stats.top_scores, SelectedScores)

(***************************************************************************)
(* smart_select_clauses: the ids of the selection                          *)
(***************************************************************************)

\* C29: the selection never holds two entries with the same clause id and
\* never an entry with an empty clause id, for every input list, also with
\* repeated or missing ids and a baseline clause that is also top-ranked.
C29_SelectionIdsDistinctAndNonEmpty ==
    SelDone =>
        /\ \A k \in 1..Len(selected) : selected[k].clause_id # ""
        /\ \A k \in 1..Len(selected) : \A l \in 1..Len(selected) :
              k # l => selected[k].clause_id # selected[l].clause_id

\* The list has a clause without id and two clauses with the same id, the
\* first clause is a baseline clause and ranks above every other clause, and
\* the selection holds it once and nothing else.
C29_Witness ==
    /\ SelDone
    /\ Len(clauses_list) = 3 /\ ensure_baseline >= 1 /\ max_llm_clauses >= 3
    /\ \E i \in 1..3 : clauses_list[i].clause_id = ""
    /\ \E i \in 1..3 : \E j \in 1..3 :
          i # j /\ clauses_list[i].clause_id # ""
                /\ clauses_list[i].clause_id = clauses_list[j].clause_id
    /\ \A j \in 2..3 : Outranks(Scored(clauses_list[1]), Scored(clauses_list[j]))
    /\ Len(selected) = 1
    /\ selected[1] = Scored(clauses_list[1])

(***************************************************************************)
(* classify_contract_type: when the fallback is reachable                  *)
(***************************************************************************)

\* C28: whenever the best rule-phase score is 2 or more, the rule-phase
\* confidence is at least 0.55 whatever the second-best score, and the
\* rule-phase result is returned without a call; the fallback service is
\* called if and only if the best rule-phase score is 0 or 1.
C28_FallbackOnlyFromLowSignal ==
    CtEnded =>
        LET best == BestScore(ct_text)
        IN  /\ CtCalled <=> best <= 1
            /\ best >= 2 =>
                  /\ pc = "classified"
                  /\ ct_result.method = "rules"
                  /\ ct_result.confidence >= 55

\* Best and second-best score both 2: the confidence is exactly 0.55 and no
\* call was made.
C28_Witness ==
    /\ CtEnded
    /\ BestScore(ct_text) = 2 /\ SecondScore(ct_text) = 2
    /\ ~CtCalled
    /\ ct_result.confidence = 55

====
